---- MODULE Spec2Model ----
(***************************************************************************)
(* Kernel fleet supervisor (scripts/fleet/fleet_manager.py): the registry  *)
(* store, the port allocator, the spawn and termination orchestrators, the *)
(* liveness reaper and the find-or-create matcher, together with the       *)
(* operating-system objects they act on (kernel processes, listening       *)
(* ports, the registry file and its temporary file, PID files and          *)
(* connection descriptors).                                                *)
(*                                                                         *)
(* Every public operation is a blocking call.  It is modelled as a chain   *)
(* of steps cut at the places where the code blocks on the outside world   *)
(* (subprocess.run, the PID-file poll, the connect loop, process.wait, the *)
(* file writes), so that kernel starts and deaths and a second supervisor  *)
(* process interleave exactly where they can in the program.               *)
(***************************************************************************)
EXTENDS Integers, Sequences, FiniteSets, TLC

(* ------------------------------ bounds -------------------------------- *)
\* number of kernel processes launched over a behaviour
MaxKernels == 2
\* number of ports, counted from BasePort, that a foreign process may hold
MaxExt == 1

(* ------------------------- program constants -------------------------- *)
BasePort == 9555
PortLimit == 10000
PidPolls == 10

\* the long-lived HTTP service process and a CLI invocation
Svc == 1
Cli == 2
Managers == {Svc, Cli}

(* --------------------------- python values ---------------------------- *)
\* Optional[str] / Optional[float]: None, or a value written as its text
None == [some |-> FALSE, v |-> ""]
Some(v) == [some |-> TRUE, v |-> v]
Truthy(o) == o.some /\ o.v # "" /\ o.v # "0.0"

\* a pathlib.Path, or the str() of one; name is the artifact kind, id the
\* kernel id the path is derived from
PathOf(name, id) == [kind |-> "path", name |-> name, id |-> id]
StrOf(p) == [kind |-> "str", name |-> p.name, id |-> p.id]

\* the requirement shapes callers ask for
Requirements ==
  { [language |-> "lua", config |-> "default.toml",
     memory_limit |-> None, cpu_limit |-> None],
    [language |-> "lua", config |-> "default.toml",
     memory_limit |-> Some("512M"), cpu_limit |-> Some("0.5")],
    [language |-> "javascript", config |-> "custom.toml",
     memory_limit |-> Some("lots"), cpu_limit |-> None] }

\* variant: the default cursor is one port too high
EmptyRegistryNext ==
  [kernels |-> <<>>, next_port |-> BasePort + 1, total_spawned |-> 0]

EmptyRegistry == [kernels |-> <<>>, next_port |-> BasePort, total_spawned |-> 0]

(* ------------------------- JSON text (tokens) ------------------------- *)
Tok(t, s, n) == [t |-> t, s |-> s, n |-> n]
Key(k) == Tok("key", k, 0)
JStr(s, n) == Tok("str", s, n)
JNum(n) == Tok("num", "", n)
JNull == Tok("null", "", 0)
Punct(c) == Tok(c, "", 0)

\* json.dump's default=str: a value json cannot encode is written as str(v)
JsonDefault(p) == JStr(p.name, p.id)
DumpPath(p) == IF p.kind = "str" THEN JStr(p.name, p.id) ELSE JsonDefault(p)
DumpOptStr(o) == IF o.some THEN JStr(o.v, 0) ELSE JNull
DumpOptFloat(o) == IF o.some THEN Tok("float", o.v, 0) ELSE JNull

DumpKernel(k) ==
  << Punct("{"),
     Key("id"), JStr("kernel", k.id),
     Key("pid"), JNum(k.pid),
     Key("port"), JNum(k.port),
     Key("language"), JStr(k.language, 0),
     Key("config"), JStr(k.config, 0),
     Key("connection_file"), DumpPath(k.connection_file),
     Key("log_file"), DumpPath(k.log_file),
     Key("started_at"), JStr("time", k.started_at),
     Key("status"), JStr(k.status, 0),
     Key("memory_limit"), DumpOptStr(k.memory_limit),
     Key("cpu_limit"), DumpOptFloat(k.cpu_limit),
     Key("clients"), Punct("["), Punct("]"),
     Punct("}") >>

RECURSIVE DumpKernels(_)
DumpKernels(ks) ==
  IF ks = <<>> THEN <<>> ELSE DumpKernel(Head(ks)) \o DumpKernels(Tail(ks))

RegistryHead == << Punct("{"), Key("kernels"), Punct("[") >>

\* json.dump(self.registry, f, indent=2, default=str)
Dump(reg) ==
  RegistryHead
  \o DumpKernels(reg.kernels)
  \o << Punct("]"), Key("next_port"), JNum(reg.next_port),
        Key("total_spawned"), JNum(reg.total_spawned), Punct("}") >>

KernelKeys ==
  << "id", "pid", "port", "language", "config", "connection_file",
     "log_file", "started_at", "status", "memory_limit", "cpu_limit" >>
KernelTypes ==
  << {"str"}, {"num"}, {"num"}, {"str"}, {"str"}, {"str"},
     {"str"}, {"str"}, {"str"}, {"str", "null"}, {"float", "null"} >>
KernelLen == 2 * Len(KernelKeys) + 5
HeadLen == Len(RegistryHead)
TailLen == Len(Dump(EmptyRegistry)) - HeadLen

LoadOpt(tok) == IF tok.t = "null" THEN None ELSE Some(tok.s)
LoadPath(tok) == [kind |-> "str", name |-> tok.s, id |-> tok.n]

\* one kernel object of the text, tokens b+1 .. b+KernelLen
KernelWellFormed(toks, b) ==
  /\ toks[b + 1] = Punct("{")
  /\ \A i \in 1..Len(KernelKeys) :
       /\ toks[b + 2 * i] = Key(KernelKeys[i])
       /\ toks[b + 2 * i + 1].t \in KernelTypes[i]
  /\ toks[b + KernelLen - 3] = Key("clients")
  /\ toks[b + KernelLen - 2] = Punct("[")
  /\ toks[b + KernelLen - 1] = Punct("]")
  /\ toks[b + KernelLen] = Punct("}")

LoadKernel(toks, b) ==
  [ id |-> toks[b + 3].n,
    pid |-> toks[b + 5].n,
    port |-> toks[b + 7].n,
    language |-> toks[b + 9].s,
    config |-> toks[b + 11].s,
    connection_file |-> LoadPath(toks[b + 13]),
    log_file |-> LoadPath(toks[b + 15]),
    started_at |-> toks[b + 17].n,
    status |-> toks[b + 19].s,
    memory_limit |-> LoadOpt(toks[b + 21]),
    cpu_limit |-> LoadOpt(toks[b + 23]),
    clients |-> << >> ]

\* json.load accepts the text: it is one complete registry object
WellFormed(toks) ==
  LET n == Len(toks) IN
  /\ n >= HeadLen + TailLen
  /\ (n - HeadLen - TailLen) % KernelLen = 0
  /\ SubSeq(toks, 1, HeadLen) = RegistryHead
  /\ \A j \in 0..((n - HeadLen - TailLen) \div KernelLen - 1) :
       KernelWellFormed(toks, HeadLen + j * KernelLen)
  /\ toks[n - 5] = Punct("]")
  /\ toks[n - 4] = Key("next_port")
  /\ toks[n - 3].t = "num"
  /\ toks[n - 2] = Key("total_spawned")
  /\ toks[n - 1].t = "num"
  /\ toks[n] = Punct("}")

\* json.load(f) of a well-formed text
Load(toks) ==
  LET n == Len(toks)
      cnt == (n - HeadLen - TailLen) \div KernelLen
  IN [ kernels |-> [j \in 1..cnt |-> LoadKernel(toks, HeadLen + (j - 1) * KernelLen)],
       next_port |-> toks[n - 3].n,
       total_spawned |-> toks[n - 1].n ]

(* ------------------------------- state -------------------------------- *)
VARIABLES
  registry,   \* registry[m]: self.registry of supervisor process m
  pc,         \* pc[m]: where process m stands in its public operation
  op,         \* op[m]: the public operation process m is running
  loc,        \* loc[m]: the locals of that operation
  ret,        \* ret[m]: the result an operation of m hands to its caller in
              \*   this state (NoRet in every other state)
  procs,      \* OS process table of the launched kernels, indexed by pid
  ext,        \* ports held by foreign processes
  pidfiles,   \* kernel ids whose <id>.pid file exists
  connfiles,  \* kernel ids whose <id>.json connection descriptor exists
  canon,      \* inode of registry.json (0: no such file)
  tmp,        \* inode of registry.tmp (0: no such file)
  fd,         \* fd[m]: inode process m has open for writing (0: none)
  inoData,    \* inoData[i]: content of inode i, as JSON tokens
  writers,    \* history: the processes that have opened registry.tmp to write
  registered, \* history: ids of the records a spawn persisted and returned
  removed,    \* history: ids of the records a stop or a reap took out
  last,       \* history: last[m]: the reap or find-or-create m completed
              \*   last, kept while no kernel has died and m has called
              \*   nothing else since
  atCall      \* history: atCall[m]: registry of m, in memory and on disk,
              \*   when its running operation was called

mgrVars == << registry, pc, op, loc >>
envVars == << procs, ext, pidfiles, connfiles >>
fsVars == << canon, tmp, fd, inoData, writers >>
histVars == << registered, removed, last, atCall >>
vars == << registry, pc, op, loc, ret, procs, ext, pidfiles, connfiles,
           canon, tmp, fd, inoData, writers, registered, removed, last, atCall >>

Inodes == 1..(2 * Cardinality(Managers))
ExtPorts == BasePort..(BasePort + MaxExt - 1)
Pids == 1..Len(procs)

NoReq == [language |-> "", config |-> "", memory_limit |-> None, cpu_limit |-> None]
NoLoc ==
  [ kernel_id |-> 0, port |-> 0, pid |-> 0, polls |-> 0, tried |-> FALSE,
    req |-> NoReq, force |-> FALSE, queue |-> << >>, cont |-> "",
    limits |-> "none", failed |-> {}, bytes |-> 0 ]
\* no argument of stop_kernel
NoArg == [digits |-> FALSE, n |-> 0]
\* no listing and no metrics
NoView == [total_kernels |-> 0, total_spawned |-> 0, kernels |-> << >>]
NoRet == [op |-> "none", status |-> "none", why |-> "", id |-> 0,
          req |-> NoReq, files |-> 0, arg |-> NoArg, failed |-> {},
          view |-> NoView, code |-> 0]
NoCall == [mem |-> EmptyRegistry, file |-> << >>, died |-> FALSE]
NoRets == [m \in Managers |-> NoRet]
NoLast == [op |-> "none", req |-> NoReq, id |-> 0, twice |-> FALSE]

\* a process that is not running a supervisor / one that waits for a request
Home(m) == IF m = Cli THEN "absent" ELSE "idle"

(* ----------------------- operating-system facts ----------------------- *)
\* psutil.Process(pid) succeeds
Alive(pid) == pid \in Pids /\ procs[pid].st # "dead"

Listening(pid) == pid \in Pids /\ procs[pid].st = "listening"

\* some socket is bound to and listening on the port
PortBusy(port) ==
  \/ port \in ext
  \/ \E q \in Pids : Listening(q) /\ procs[q].port = port

\* the content of the registry file, as a reader of registry.json sees it
FileData == IF canon = 0 THEN << >> ELSE inoData[canon]

\* the pid a kernel wrote in its PID file
PidInFile(kid) == CHOOSE q \in Pids : procs[q].kid = kid

\* inodes that a name or an open file still refers to
Refs(c, t, f) == ({c, t} \cup {f[m] : m \in Managers}) \ {0}
Collect(data, refs) == [i \in Inodes |-> IF i \in refs THEN data[i] ELSE << >>]
FreeIno == CHOOSE i \in Inodes :
             /\ i \notin Refs(canon, tmp, fd)
             /\ \A j \in Inodes : j < i => j \in Refs(canon, tmp, fd)

\* write(2) at offset 0 of a file that was not truncated in between
Overwrite(old, new) == new \o SubSeq(old, Len(new) + 1, Len(old))

\* variant: whatever the caller asked for, the signal sent is the kill
SignalKill(ps, pid, sig) == [ps EXCEPT ![pid].sig = "kill"]

\* os.kill(pid, sig): the signal is pending on the process
Signal(ps, pid, sig) == [ps EXCEPT ![pid].sig = sig]

(* ------------------------------- Init --------------------------------- *)
\* the service process was constructed in an empty fleet directory
\* the service has been constructed on a fleet directory whose registry
\* file holds `reg`; no kernel runs
InitWith(reg) ==
  /\ registry = [m \in Managers |-> IF m = Svc THEN reg ELSE EmptyRegistry]
  /\ pc = [m \in Managers |-> Home(m)]
  /\ op = [m \in Managers |-> "none"]
  /\ loc = [m \in Managers |-> NoLoc]
  /\ ret = NoRets
  /\ procs = << >>
  /\ ext = {}
  /\ pidfiles = {}
  /\ connfiles = {}
  /\ canon = 1
  /\ tmp = 0
  /\ fd = [m \in Managers |-> 0]
  /\ inoData = [i \in Inodes |-> IF i = 1 THEN Dump(reg) ELSE << >>]
  /\ writers = {Svc}
  /\ registered = {}
  /\ removed = {}
  /\ last = [m \in Managers |-> NoLast]
  /\ atCall = [m \in Managers |-> NoCall]

\* an empty fleet directory: load_registry wrote the default registry
Init == InitWith(EmptyRegistry)

\* a fleet directory in long use: every kernel was stopped, and the spawns
\* so far have moved the cursor to the last two ports below the limit
WornRegistry ==
  [kernels |-> << >>, next_port |-> PortLimit - 2,
   total_spawned |-> PortLimit - 2 - BasePort]

InitWorn == InitWith(WornRegistry)

(* --------------------- the kernel and other processes ----------------- *)
\* the daemon writes its pid to the --pid-file path
KernelWritePid(p) ==
  /\ Alive(p) /\ procs[p].kid \notin pidfiles
  /\ pidfiles' = pidfiles \cup {procs[p].kid}
  /\ ret' = NoRets
  /\ UNCHANGED << mgrVars, fsVars, histVars, procs, ext, connfiles >>

\* the kernel binds its port, starts accepting and writes its descriptor
KernelListen(p) ==
  /\ Alive(p) /\ procs[p].st = "init"
  /\ ~PortBusy(procs[p].port)
  /\ procs' = [procs EXCEPT ![p].st = "listening"]
  /\ connfiles' = connfiles \cup {procs[p].kid}
  /\ ret' = NoRets
  /\ UNCHANGED << mgrVars, fsVars, histVars, ext, pidfiles >>

\* the kernel process exits: on a signal, on an error or by itself
KernelDie(p) ==
  /\ Alive(p)
  /\ procs' = [procs EXCEPT ![p] = [st |-> "dead", sig |-> "none", port |-> 0, kid |-> @.kid]]
  /\ last' = [m \in Managers |-> NoLast]
  /\ atCall' = [m \in Managers |-> IF op[m] = "none" THEN atCall[m]
                                    ELSE [atCall[m] EXCEPT !.died = TRUE]]
  /\ ret' = NoRets
  /\ UNCHANGED << mgrVars, fsVars, registered, removed, ext, pidfiles, connfiles >>

\* a foreign process takes, or gives back, a port of the scanned range
ExtBind(port) ==
  /\ port \in ExtPorts /\ ~PortBusy(port)
  /\ ext' = ext \cup {port}
  /\ ret' = NoRets
  /\ UNCHANGED << mgrVars, fsVars, histVars, procs, pidfiles, connfiles >>

ExtRelease(port) ==
  /\ port \in ext
  /\ ext' = ext \ {port}
  /\ ret' = NoRets
  /\ UNCHANGED << mgrVars, fsVars, histVars, procs, pidfiles, connfiles >>

\* the kernels the supervisors launched
KernelEnv == \E p \in Pids : KernelWritePid(p) \/ KernelListen(p) \/ KernelDie(p)

\* the kernels, and the foreign processes of the host that take ports
Env ==
  \/ KernelEnv
  \/ \E port \in ExtPorts : ExtBind(port) \/ ExtRelease(port)

(* ------------------- control fragments of an operation ---------------- *)
Result(name, status, why, id, req) ==
  [op |-> name, status |-> status, why |-> why, id |-> id, req |-> req,
   files |-> 0, arg |-> NoArg, failed |-> {}, view |-> NoView, code |-> 0]

Snapshot(m) == [mem |-> registry[m], file |-> FileData, died |-> FALSE]

\* the public operation `name` is called and blocks at `label`
Calls(m, name, label, l) ==
  /\ pc' = [pc EXCEPT ![m] = label]
  /\ op' = [op EXCEPT ![m] = name]
  /\ loc' = [loc EXCEPT ![m] = l]
  /\ atCall' = [atCall EXCEPT ![m] = Snapshot(m)]
  /\ last' = [last EXCEPT ![m] = IF @.op = name /\ @.req = l.req THEN @ ELSE NoLast]
  /\ ret' = NoRets

\* the running operation moves on to `label`
Goes(m, label, l) ==
  /\ pc' = [pc EXCEPT ![m] = label]
  /\ loc' = [loc EXCEPT ![m] = l]
  /\ ret' = NoRets
  /\ UNCHANGED << op, last, atCall >>

\* the status code the handler of fleet_http_service.py answers with; an
\* exception that leaves the handler is answered 500 by Flask; 0 for the
\* operations that have no route
HttpCode(r) ==
  CASE r.status = "raise" -> 500
    [] r.op = "spawn" -> IF r.status = "ok" THEN 201 ELSE 500
    [] r.op = "stop" -> IF r.status = "ok" THEN 200 ELSE 500
    [] r.op = "find" -> IF r.status = "ok" THEN 200 ELSE 500
    [] r.op = "get" -> IF r.status = "ok" THEN 200 ELSE 404
    [] r.op \in {"list", "metrics", "prom"} -> 200
    [] OTHER -> 0

\* the public operation returns r to its caller (or raises, r.status = "raise")
Returns(m, r) ==
  /\ pc' = [pc EXCEPT ![m] = Home(m)]
  /\ op' = [op EXCEPT ![m] = "none"]
  /\ loc' = [loc EXCEPT ![m] = NoLoc]
  /\ ret' = [NoRets EXCEPT ![m] = [r EXCEPT !.code = IF m = Svc THEN HttpCode(r) ELSE 0]]
  /\ last' = [last EXCEPT ![m] = IF /\ r.op \in {"reap", "find"}
                                    /\ r.status = "ok"
                                    /\ ~atCall[m].died
                                 THEN [op |-> r.op, req |-> r.req, id |-> r.id,
                                       twice |-> @.op = r.op]
                                 ELSE NoLast]
  /\ atCall' = [atCall EXCEPT ![m] = NoCall]

(* --------------------------- registry store --------------------------- *)
\* save_registry, first statement: open(temp_file, 'w') creates the file or
\* truncates the one that is there
OpenTemp(m) ==
  LET ino == IF tmp # 0 THEN tmp ELSE FreeIno IN
  /\ tmp' = ino
  /\ fd' = [fd EXCEPT ![m] = ino]
  /\ inoData' = [inoData EXCEPT ![ino] = << >>]
  /\ writers' = writers \cup {m}
  /\ UNCHANGED canon

\* save_registry: json.dump into the open file, and its close
SaveWrite(m) ==
  /\ pc[m] = "sv_write"
  /\ fd' = [fd EXCEPT ![m] = 0]
  /\ inoData' = Collect([inoData EXCEPT ![fd[m]] = Overwrite(@, Dump(registry[m]))],
                        Refs(canon, tmp, fd'))
  /\ Goes(m, "sv_replace", loc[m])
  /\ UNCHANGED << registry, envVars, registered, removed, canon, tmp, writers >>

\* variant: the temporary file is never renamed over the canonical one
ReplacedNot ==
  /\ canon' = canon
  /\ tmp' = tmp
  /\ inoData' = inoData
  /\ UNCHANGED << fd, writers >>

\* temp_file.replace(self.registry_file)
Replaced ==
  /\ canon' = tmp
  /\ tmp' = 0
  /\ inoData' = Collect(inoData, Refs(tmp, 0, fd))
  /\ UNCHANGED << fd, writers >>

(* --------------------------- port allocator --------------------------- *)
\* variant: the candidate is returned without the probe bind
ScanPortsNoProbe(port) == IF port < PortLimit THEN port ELSE 0

\* variant: at the upper bound the scan starts over at the first port
RECURSIVE ScanPortsWrap(_)
ScanPortsWrap(port) ==
  IF port < PortLimit
  THEN IF ~PortBusy(port) THEN port ELSE ScanPortsWrap(port + 1)
  ELSE BasePort

RECURSIVE ScanPorts(_)
ScanPorts(port) ==
  IF port < PortLimit
  THEN IF ~PortBusy(port) THEN port ELSE ScanPorts(port + 1)
  ELSE 0

\* variant: the scan always starts at the first port of the range
FindFreePortFromBase(reg, start_port) == ScanPorts(BasePort)

\* find_free_port(start_port); 0 stands for the RuntimeError
FindFreePort(reg, start_port) ==
  ScanPorts(IF start_port # 0 THEN start_port ELSE reg.next_port)

(* -------------------------- spawn orchestrator ------------------------ *)
\* variant: the id is made once, and every later kernel gets the first one's
NewIdFixed == IF procs = << >> THEN Len(procs) + 1 ELSE procs[1].kid

\* f"kernel-{uuid.uuid4().hex[:8]}": the random draws are taken to differ
\* from one another, so the id is one no kernel has had
NewId == Len(procs) + 1

\* datetime.now(timezone.utc), as a logical clock
Now == Len(procs)

\* spawn_kernel up to the launch: the id, the port, the binary
SpawnBody(m, name, req) ==
  LET kernel_id == NewId
      port == FindFreePort(registry[m], 0)
      l == [NoLoc EXCEPT !.kernel_id = kernel_id, !.port = port, !.req = req]
  IN IF port = 0
     THEN Returns(m, Result(name, "raise", "PortExhausted", 0, req))
     ELSE \E found \in BOOLEAN :
            IF found
            THEN /\ Len(procs) < MaxKernels
                 /\ IF pc[m] = "idle" THEN Calls(m, name, "sp_launch", l)
                                      ELSE Goes(m, "sp_launch", l)
            ELSE Returns(m, Result(name, "fail", "BinaryNotFound", 0, req))

SpawnCall(m, req) ==
  /\ pc[m] = "idle"
  /\ Len(procs) < MaxKernels \/ FindFreePort(registry[m], 0) = 0
  /\ SpawnBody(m, "spawn", req)
  /\ UNCHANGED << registry, envVars, fsVars, registered, removed >>

\* subprocess.run(cmd): the launcher daemonizes a kernel and exits
Launch(m) ==
  /\ pc[m] = "sp_launch"
  /\ \E rc \in {0, 1} :
       IF rc = 0
       THEN /\ procs' = Append(procs, [st |-> "init", sig |-> "none",
                                       port |-> loc[m].port, kid |-> loc[m].kernel_id])
            /\ Goes(m, "sp_pid", loc[m])
       ELSE /\ Returns(m, Result(op[m], "fail", "LaunchFailed", 0, loc[m].req))
            /\ UNCHANGED procs
  /\ UNCHANGED << registry, fsVars, registered, removed, ext, pidfiles, connfiles >>

\* one round of the PID-file poll that finds the file
PidPollHit(m) ==
  /\ pc[m] = "sp_pid"
  /\ loc[m].kernel_id \in pidfiles
  /\ Goes(m, "sp_ready", [loc[m] EXCEPT !.pid = PidInFile(loc[m].kernel_id), !.polls = 0])
  /\ UNCHANGED << registry, envVars, fsVars, registered, removed >>

\* variant: the first round that does not find the file ends the spawn
PidPollMissOnce(m) ==
  /\ pc[m] = "sp_pid"
  /\ loc[m].kernel_id \notin pidfiles
  /\ Returns(m, Result(op[m], "fail", "PidFileTimeout", 0, loc[m].req))
  /\ UNCHANGED << registry, envVars, fsVars, registered, removed >>

\* variant: the poll has no budget
PidPollMissForever(m) ==
  /\ pc[m] = "sp_pid"
  /\ loc[m].kernel_id \notin pidfiles
  /\ Goes(m, "sp_pid", loc[m])
  /\ UNCHANGED << registry, envVars, fsVars, registered, removed >>

\* one round that does not; the last one ends the spawn
PidPollMiss(m) ==
  /\ pc[m] = "sp_pid"
  /\ loc[m].kernel_id \notin pidfiles
  /\ IF loc[m].polls + 1 < PidPolls
     THEN Goes(m, "sp_pid", [loc[m] EXCEPT !.polls = @ + 1])
     ELSE Returns(m, Result(op[m], "fail", "PidFileTimeout", 0, loc[m].req))
  /\ UNCHANGED << registry, envVars, fsVars, registered, removed >>

\* variant: the paths are stored as Path objects, str() forgotten
KernelInfoPath(l, now) ==
  [ id |-> l.kernel_id, pid |-> l.pid, port |-> l.port,
    language |-> l.req.language, config |-> l.req.config,
    connection_file |-> PathOf("conn", l.kernel_id),
    log_file |-> PathOf("log", l.kernel_id),
    started_at |-> now, status |-> "running",
    memory_limit |-> l.req.memory_limit, cpu_limit |-> l.req.cpu_limit,
    clients |-> << >> ]

\* the record spawn_kernel builds
KernelInfo(l, now) ==
  [ id |-> l.kernel_id,
    pid |-> l.pid,
    port |-> l.port,
    language |-> l.req.language,
    config |-> l.req.config,
    connection_file |-> StrOf(PathOf("conn", l.kernel_id)),
    log_file |-> StrOf(PathOf("log", l.kernel_id)),
    started_at |-> now,
    status |-> "running",
    memory_limit |-> l.req.memory_limit,
    cpu_limit |-> l.req.cpu_limit,
    clients |-> << >> ]

\* variant: the port cursor is not advanced past the assigned port
RegisteredStale(reg, info) ==
  [ kernels |-> Append(reg.kernels, info),
    next_port |-> reg.next_port,
    total_spawned |-> reg.total_spawned + 1 ]

\* variant: the new record replaces the list instead of joining it
RegisteredAlone(reg, info) ==
  [ kernels |-> << info >>,
    next_port |-> info.port + 1,
    total_spawned |-> reg.total_spawned + 1 ]

\* variant: the counter is set to the number of records
RegisteredCount(reg, info) ==
  [ kernels |-> Append(reg.kernels, info),
    next_port |-> info.port + 1,
    total_spawned |-> Len(reg.kernels) + 1 ]

\* variant: the port cursor goes back to the port just assigned
RegisteredRewound(reg, info) ==
  [ kernels |-> Append(reg.kernels, info),
    next_port |-> IF reg.kernels = << >> THEN info.port + 1 ELSE reg.kernels[1].port,
    total_spawned |-> reg.total_spawned + 1 ]

\* the registry after spawn_kernel registered the record
Registered(reg, info) ==
  [ kernels |-> Append(reg.kernels, info),
    next_port |-> info.port + 1,
    total_spawned |-> reg.total_spawned + 1 ]

\* the characters of the memory strings the requests carry
Spelling(v) ==
  CASE v = "512M" -> << "5", "1", "2", "M" >>
    [] v = "1G" -> << "1", "G" >>
    [] v = "750K" -> << "7", "5", "0", "K" >>
    [] v = "64" -> << "6", "4" >>
    [] v = "512m" -> << "5", "1", "2", "m" >>
    [] v = "1.5G" -> << "1", ".", "5", "G" >>
    [] v = "lots" -> << "l", "o", "t", "s" >>
    [] OTHER -> << >>

Digits == {"0", "1", "2", "3", "4", "5", "6", "7", "8", "9"}

\* str.upper(), on the letters that occur
Upper(c) ==
  CASE c = "m" -> "M" [] c = "g" -> "G" [] c = "k" -> "K"
    [] c = "l" -> "L" [] c = "o" -> "O" [] c = "t" -> "T" [] c = "s" -> "S"
    [] OTHER -> c

\* memory_limit.upper()[i], counted from 1
UpperChar(v, i) == Upper(Spelling(v)[i])

\* int() of one digit
DigitValue(c) ==
  CASE c = "0" -> 0 [] c = "1" -> 1 [] c = "2" -> 2 [] c = "3" -> 3
    [] c = "4" -> 4 [] c = "5" -> 5 [] c = "6" -> 6 [] c = "7" -> 7
    [] c = "8" -> 8 [] c = "9" -> 9

\* (\d+) at the start of the string: the length of the longest run of
\* digits there; re.match anchors at the start and \d+ is greedy
DigitCount(v) ==
  CHOOSE k \in 0..Len(Spelling(v)) :
    /\ \A i \in 1..k : UpperChar(v, i) \in Digits
    /\ k < Len(Spelling(v)) => UpperChar(v, k + 1) \notin Digits

\* int(value) of the first k characters
RECURSIVE IntOf(_, _)
IntOf(v, k) ==
  IF k = 0 THEN 0 ELSE 10 * IntOf(v, k - 1) + DigitValue(UpperChar(v, k))

\* ([MGK]?): the character after the digits when it is a unit, else '';
\* what follows is not looked at
UnitOf(v) ==
  IF /\ DigitCount(v) < Len(Spelling(v))
     /\ UpperChar(v, DigitCount(v) + 1) \in {"M", "G", "K"}
  THEN UpperChar(v, DigitCount(v) + 1)
  ELSE ""

\* re.match(r'(\d+)([MGK]?)', memory_limit.upper()) is not None: the string
\* begins with a digit
MemoryParses(v) == DigitCount(v) >= 1

\* variant: the units are powers of ten
UnitFactorDecimal(unit) ==
  CASE unit = "G" -> 1000 * 1000 * 1000
    [] unit = "M" -> 1000 * 1000
    [] unit = "K" -> 1000
    [] OTHER -> 1

\* value *= 1024 ..., by unit
UnitFactor(unit) ==
  CASE unit = "G" -> 1024 * 1024 * 1024
    [] unit = "M" -> 1024 * 1024
    [] unit = "K" -> 1024
    [] OTHER -> 1

\* the number written to memory.limit_in_bytes
MemoryBytes(v) == IntOf(v, DigitCount(v)) * UnitFactor(UnitOf(v))

\* what a run of apply_resource_limits with outcome `limits` has written as
\* the memory limit of the process; 0 when it has written none
MemoryWritten(req, limits) ==
  IF limits = "applied" /\ Truthy(req.memory_limit) /\ MemoryParses(req.memory_limit.v)
  THEN MemoryBytes(req.memory_limit.v)
  ELSE 0

\* if memory_limit or cpu_limit
LimitsRequested(req) == Truthy(req.memory_limit) \/ Truthy(req.cpu_limit)

\* the registration in memory and the first statement of save_registry;
\* `limits` tells what became of the limits
Register(m, limits) ==
  /\ registry' = [registry EXCEPT ![m] = Registered(@, KernelInfo(loc[m], Now))]
  /\ OpenTemp(m)
  /\ Goes(m, "sv_write", [loc[m] EXCEPT !.cont = "spawn", !.tried = FALSE,
                                        !.limits = limits,
                                        !.bytes = MemoryWritten(loc[m].req, limits)])
  /\ UNCHANGED << envVars, registered, removed >>

\* variant: the spawn goes on without a successful connect
ReadyConnectUnchecked(m) ==
  /\ pc[m] = "sp_ready"
  /\ IF LimitsRequested(loc[m].req)
     THEN /\ Goes(m, "sp_limits", [loc[m] EXCEPT !.tried = FALSE])
          /\ UNCHANGED << registry, envVars, fsVars, registered, removed >>
     ELSE Register(m, "none")

\* wait_for_kernel: a connect to the port succeeds; then the limits if any
\* were requested, else the registration
ReadyConnect(m) ==
  /\ pc[m] = "sp_ready"
  /\ PortBusy(loc[m].port)
  /\ IF LimitsRequested(loc[m].req)
     THEN /\ Goes(m, "sp_limits", [loc[m] EXCEPT !.tried = FALSE])
          /\ UNCHANGED << registry, envVars, fsVars, registered, removed >>
     ELSE Register(m, "none")

\* apply_resource_limits has something to set: a memory string that
\* parses, or a cpu limit
LimitsToSet(req) ==
  \/ Truthy(req.memory_limit) /\ MemoryParses(req.memory_limit.v)
  \/ Truthy(req.cpu_limit)

\* variant: a failure to apply the limits ends the spawn
LimitsFailedAborts(m) ==
  /\ pc[m] = "sp_limits"
  /\ ~Alive(loc[m].pid) \/ LimitsToSet(loc[m].req)
  /\ Returns(m, Result(op[m], "fail", "ResourceLimitApplyFailure", 0, loc[m].req))
  /\ UNCHANGED << registry, envVars, fsVars, registered, removed >>

\* apply_resource_limits runs through on the living process: it sets the
\* limits, or sets nothing when the memory string does not parse
LimitsApplied(m) ==
  /\ pc[m] = "sp_limits"
  /\ Alive(loc[m].pid)
  /\ Register(m, IF LimitsToSet(loc[m].req) THEN "applied" ELSE "skipped")

\* apply_resource_limits fails (no such process, no permission, no cgroup
\* tree): except Exception prints a warning, and spawn_kernel goes on
LimitsFailed(m) ==
  /\ pc[m] = "sp_limits"
  /\ ~Alive(loc[m].pid) \/ LimitsToSet(loc[m].req)
  /\ Register(m, "failed")

\* wait_for_kernel: a connect attempt is refused
ReadyRefused(m) ==
  /\ pc[m] = "sp_ready"
  /\ ~PortBusy(loc[m].port)
  /\ ~loc[m].tried
  /\ Goes(m, "sp_ready", [loc[m] EXCEPT !.tried = TRUE])
  /\ UNCHANGED << registry, envVars, fsVars, registered, removed >>

\* try: process.kill() / except: pass in spawn_kernel.  The name `process`
\* is not bound in spawn_kernel: NameError, swallowed; no signal is sent
SpawnKill(ps, pid) == ps

\* variant: the port of a spawn that timed out is not offered again
ReadyTimeoutAdvances(m) ==
  /\ pc[m] = "sp_ready"
  /\ loc[m].tried
  /\ procs' = SpawnKill(procs, loc[m].pid)
  /\ registry' = [registry EXCEPT ![m].next_port = loc[m].port + 1]
  /\ Returns(m, Result(op[m], "fail", "PortReadyTimeout", 0, loc[m].req))
  /\ UNCHANGED << fsVars, ext, pidfiles, connfiles, registered, removed >>

\* wait_for_kernel gives up after a refused attempt: timeout
ReadyTimeout(m) ==
  /\ pc[m] = "sp_ready"
  /\ loc[m].tried
  /\ procs' = SpawnKill(procs, loc[m].pid)
  /\ Returns(m, Result(op[m], "fail", "PortReadyTimeout", 0, loc[m].req))
  /\ UNCHANGED << registry, fsVars, ext, pidfiles, connfiles, registered, removed >>

(* ------------------------ termination orchestrator -------------------- *)
\* the argument of stop_kernel: a string of digits, or any other string
\* (an id "kernel-<n>" is never all digits)
PortArg(port) == [digits |-> TRUE, n |-> port]
IdArg(id) == [digits |-> FALSE, n |-> id]

\* next((k for k in kernels if ...), None): the first of the indices that
\* satisfy the condition; 0 stands for None
FirstIndex(found) ==
  IF found = {} THEN 0 ELSE CHOOSE i \in found : \A j \in found : i <= j

\* variant: the id of the record found by port is not taken over
ResolveNoRebind(reg, arg) ==
  IF arg.digits
  THEN 0
  ELSE FirstIndex({i \in 1..Len(reg.kernels) : reg.kernels[i].id = arg.n})

\* variant: a lookup that finds nothing falls back on the oldest record
ResolveFallback(reg, arg) ==
  LET i == IF arg.digits
           THEN FirstIndex({i \in 1..Len(reg.kernels) : reg.kernels[i].port = arg.n})
           ELSE FirstIndex({i \in 1..Len(reg.kernels) : reg.kernels[i].id = arg.n})
  IN IF i = 0 /\ reg.kernels # << >> THEN Len(reg.kernels) - Len(Tail(reg.kernels)) ELSE i

\* the lookup at the head of stop_kernel
Resolve(reg, arg) ==
  LET byPort == IF arg.digits
                THEN FirstIndex({i \in 1..Len(reg.kernels) : reg.kernels[i].port = arg.n})
                ELSE 0
      kernel_id == IF byPort # 0 THEN IdArg(reg.kernels[byPort].id) ELSE arg
  IN IF kernel_id.digits
     THEN 0
     ELSE FirstIndex({i \in 1..Len(reg.kernels) : reg.kernels[i].id = kernel_id.n})

\* variant: the record is kept and marked as stopped
WithoutMarked(reg, kernel_id) ==
  [reg EXCEPT !.kernels =
     [i \in 1..Len(@) |-> IF @[i].id = kernel_id
                          THEN [@[i] EXCEPT !.status = "stopped"]
                          ELSE @[i]]]

\* variant: the filter keeps every record
WithoutNone(reg, kernel_id) == reg

\* variant: the filter is inverted and keeps the record to be removed
WithoutOthers(reg, kernel_id) ==
  [reg EXCEPT !.kernels = SelectSeq(@, LAMBDA k : k.id = kernel_id)]

Without(reg, kernel_id) ==
  [reg EXCEPT !.kernels = SelectSeq(@, LAMBDA k : k.id # kernel_id)]

\* the running operation, started now or before, blocks at `label`
Blocks(m, name, label, l) ==
  IF pc[m] = "idle" THEN Calls(m, name, label, l)
  ELSE /\ pc' = [pc EXCEPT ![m] = label]
       /\ op' = [op EXCEPT ![m] = name]
       /\ loc' = [loc EXCEPT ![m] = l]
       /\ ret' = NoRets
       /\ UNCHANGED << last, atCall >>

\* the ids for which stop_kernel has returned False in this run of stop_all
Failed(m, ok, kernel_id) ==
  loc[m].failed \cup (IF ok THEN {} ELSE {kernel_id})

\* variant: stop_all gives up at the first stop_kernel that returns False
StopFinishAbort(m, name, rest, force, ok, why, kernel_id) ==
  IF name = "stop_all" /\ rest # << >> /\ ok
  THEN Blocks(m, name, "sa_next", [NoLoc EXCEPT !.queue = rest, !.force = force,
                                               !.failed = Failed(m, ok, kernel_id)])
  ELSE Returns(m, IF name = "stop_all"
                  THEN [Result(name, "ok", "", 0, NoReq)
                          EXCEPT !.failed = Failed(m, ok, kernel_id)]
                  ELSE [Result(name, IF ok THEN "ok" ELSE "fail", why, kernel_id, NoReq)
                          EXCEPT !.files = IF ok THEN Cardinality(pidfiles \cap {kernel_id})
                                                      + Cardinality(connfiles \cap {kernel_id})
                                                 ELSE 0])

\* stop_kernel returns `ok`; inside stop_all the loop goes on with `rest`
StopFinish(m, name, rest, force, ok, why, kernel_id) ==
  IF name = "stop_all" /\ rest # << >>
  THEN Blocks(m, name, "sa_next", [NoLoc EXCEPT !.queue = rest, !.force = force,
                                               !.failed = Failed(m, ok, kernel_id)])
  ELSE Returns(m, IF name = "stop_all"
                  THEN [Result(name, "ok", "", 0, NoReq)
                          EXCEPT !.failed = Failed(m, ok, kernel_id)]
                  ELSE [Result(name, IF ok THEN "ok" ELSE "fail", why, kernel_id, NoReq)
                          EXCEPT !.files = IF ok THEN Cardinality(pidfiles \cap {kernel_id})
                                                      + Cardinality(connfiles \cap {kernel_id})
                                                 ELSE 0])

\* the record leaves the in-memory registry and save_registry begins
StopRemove(m, name, l) ==
  /\ registry' = [registry EXCEPT ![m] = Without(@, l.kernel_id)]
  /\ removed' = removed \cup {l.kernel_id}
  /\ OpenTemp(m)
  /\ Blocks(m, name, "sv_write", [l EXCEPT !.cont = "stop"])

\* stop_kernel from its first line to the first wait
StopBody(m, name, arg, force, rest) ==
  LET i == Resolve(registry[m], arg) IN
  IF i = 0
  THEN /\ IF name = "stop"
          THEN Returns(m, [Result(name, "fail", "KernelNotFound", 0, NoReq)
                             EXCEPT !.arg = arg])
          ELSE StopFinish(m, name, rest, force, FALSE, "KernelNotFound", arg.n)
       /\ UNCHANGED << registry, removed, procs, fsVars >>
  ELSE LET kernel == registry[m].kernels[i]
           l == [NoLoc EXCEPT !.kernel_id = kernel.id, !.pid = kernel.pid,
                              !.force = force, !.queue = rest,
                              !.failed = loc[m].failed]
       IN IF ~Alive(kernel.pid)
          THEN \* psutil.NoSuchProcess: already dead
               /\ StopRemove(m, name, l)
               /\ UNCHANGED procs
          ELSE \E denied \in BOOLEAN :
                 IF denied
                 THEN \* the signal cannot be sent: except Exception
                      /\ StopFinish(m, name, rest, force, FALSE, "StopError", kernel.id)
                      /\ UNCHANGED << registry, removed, procs, fsVars >>
                 ELSE \* process.terminate(), or process.kill() when forced
                      /\ procs' = Signal(procs, kernel.pid, IF force THEN "kill" ELSE "term")
                      /\ Blocks(m, name, IF force THEN "st_wait2" ELSE "st_wait5", l)
                      /\ UNCHANGED << registry, removed, fsVars >>

StopCall(m, arg, force) ==
  /\ pc[m] = "idle"
  /\ StopBody(m, "stop", arg, force, << >>)
  /\ UNCHANGED << ext, pidfiles, connfiles, registered >>

\* process.wait returns: the process is gone
StopWaitExit(m) ==
  /\ pc[m] \in {"st_wait5", "st_wait2"}
  /\ ~Alive(loc[m].pid)
  /\ StopRemove(m, op[m], loc[m])
  /\ UNCHANGED << envVars, registered >>

\* process.wait(timeout=5) expires: escalate to kill
StopGraceTimeout(m) ==
  /\ pc[m] = "st_wait5"
  /\ Alive(loc[m].pid)
  /\ procs' = Signal(procs, loc[m].pid, "kill")
  /\ Goes(m, "st_wait2", loc[m])
  /\ UNCHANGED << registry, fsVars, ext, pidfiles, connfiles, registered, removed >>

\* process.wait(timeout=2) expires: psutil.TimeoutExpired, except Exception
StopKillTimeout(m) ==
  /\ pc[m] = "st_wait2"
  /\ Alive(loc[m].pid)
  /\ StopFinish(m, op[m], loc[m].queue, loc[m].force, FALSE, "StopError", loc[m].kernel_id)
  /\ UNCHANGED << registry, envVars, fsVars, registered, removed >>

\* stop_all: the ids are collected, then stop_kernel runs for each
StopAllCall(m, force) ==
  /\ pc[m] = "idle"
  /\ LET ids == [i \in 1..Len(registry[m].kernels) |-> registry[m].kernels[i].id] IN
       IF ids = << >>
       THEN /\ Returns(m, Result("stop_all", "ok", "", 0, NoReq))
            /\ UNCHANGED << registry, removed, procs, fsVars >>
       ELSE StopBody(m, "stop_all", IdArg(Head(ids)), force, Tail(ids))
  /\ UNCHANGED << ext, pidfiles, connfiles, registered >>

StopAllNext(m) ==
  /\ pc[m] = "sa_next"
  /\ StopBody(m, "stop_all", IdArg(Head(loc[m].queue)), loc[m].force, Tail(loc[m].queue))
  /\ UNCHANGED << ext, pidfiles, connfiles, registered >>

(* ---------------------------- liveness reaper ------------------------- *)
\* variant: the oldest record is dropped whatever its process does
AliveKernelsSkipFirst(reg) ==
  SelectSeq(IF reg.kernels = << >> THEN << >> ELSE Tail(reg.kernels),
            LAMBDA k : Alive(k.pid))

\* variant: a process with a signal pending counts as gone
AliveKernelsUnsignalled(reg) ==
  SelectSeq(reg.kernels, LAMBDA k : Alive(k.pid) /\ procs[k.pid].sig = "none")

\* variant: the probe finds every pid
AliveKernelsAll(reg) == reg.kernels

AliveKernels(reg) == SelectSeq(reg.kernels, LAMBDA k : Alive(k.pid))

Ids(ks) == {ks[i].id : i \in 1..Len(ks)}

(* ------------------------- listing and metrics ----------------------- *)
\* d[key] raises KeyError, and d.get(key) gives None, unless the dict has key
HasKey(d, key) == key \in DOMAIN d

\* kernel_metrics of get_metrics; the measurements are left out
KernelMetrics(k) == [id |-> k.id, port |-> k.port, language |-> k.language]

\* variant: an entry for every record, whatever became of its process
GetMetricsAll(reg) ==
  [ total_kernels |-> Len(reg.kernels),
    total_spawned |-> reg.total_spawned,
    kernels |-> [i \in 1..Len(reg.kernels) |-> KernelMetrics(reg.kernels[i])] ]

\* get_metrics: the counts of the registry and one entry per record whose
\* pid psutil finds
GetMetrics(reg) ==
  LET alive == AliveKernels(reg) IN
  [ total_kernels |-> Len(reg.kernels),
    total_spawned |-> reg.total_spawned,
    kernels |-> [i \in 1..Len(alive) |-> KernelMetrics(alive[i])] ]

\* get_prometheus_metrics after its reap: the aggregate lines are built
\* from metrics['aggregated'], the labeled lines from the entries whose
\* 'status' is "running"
Exposition(reg) ==
  LET metrics == GetMetrics(reg) IN
  IF ~HasKey(metrics, "aggregated")
  THEN Result("prom", "raise", "KeyError", 0, NoReq)
  ELSE [Result("prom", "ok", "", 0, NoReq) EXCEPT
          !.view = [ total_kernels |-> metrics.total_kernels,
                     total_spawned |-> metrics.total_spawned,
                     kernels |-> SelectSeq(metrics.kernels,
                                   LAMBDA k : HasKey(k, "status") /\ k.status = "running") ]]

\* what an operation that began with the reap returns after it: list_kernels
\* the records it finds running, the Prometheus handler its exposition
AfterReap(m, name) ==
  CASE name = "list" ->
         [Result(name, "ok", "", 0, NoReq) EXCEPT
            !.view = [NoView EXCEPT !.kernels = AliveKernels(registry[m])]]
    [] name = "prom" -> Exposition(registry[m])
    [] OTHER -> Result(name, "ok", "", 0, NoReq)

\* variant: the pruned list is kept in memory and not saved
CleanupUnsaved(m, name, l) ==
  /\ registry' = [registry EXCEPT ![m].kernels = AliveKernels(registry[m])]
  /\ removed' = removed \cup (Ids(registry[m].kernels) \ Ids(AliveKernels(registry[m])))
  /\ UNCHANGED fsVars
  /\ IF name = "find"
     THEN Calls(m, name, "fd_match", l)
     ELSE Returns(m, AfterReap(m, name))

\* cleanup_dead_kernels up to its save, called first thing by operation
\* `name`; l are the locals of that operation
Cleanup(m, name, l) ==
  LET alive_kernels == AliveKernels(registry[m]) IN
  IF Len(alive_kernels) # Len(registry[m].kernels)
  THEN /\ registry' = [registry EXCEPT ![m].kernels = alive_kernels]
       /\ removed' = removed \cup (Ids(registry[m].kernels) \ Ids(alive_kernels))
       /\ OpenTemp(m)
       /\ Calls(m, name, "sv_write", [l EXCEPT !.cont = name])
  ELSE /\ UNCHANGED << registry, removed, fsVars >>
       /\ IF name = "find"
          THEN Calls(m, name, "fd_match", l)
          ELSE Returns(m, AfterReap(m, name))

ReapCall(m) ==
  /\ pc[m] = "idle"
  /\ Cleanup(m, "reap", NoLoc)
  /\ UNCHANGED << envVars, registered >>

\* list_kernels: the reap, then the probe of every record
ListCall(m) ==
  /\ pc[m] = "idle"
  /\ Cleanup(m, "list", NoLoc)
  /\ UNCHANGED << envVars, registered >>

\* GET /metrics: the Prometheus exposition when the Accept header or the
\* format argument asks for it, else get_metrics as JSON
MetricsRoute(m, prometheus) ==
  /\ pc[m] = "idle"
  /\ IF prometheus
     THEN Cleanup(m, "prom", NoLoc)
     ELSE /\ Returns(m, [Result("metrics", "ok", "", 0, NoReq) EXCEPT
                           !.view = GetMetrics(registry[m])])
          /\ UNCHANGED << registry, removed, fsVars >>
  /\ UNCHANGED << envVars, registered >>

\* GET /kernels/<kernel_id>
GetCall(m, kernel_id) ==
  /\ pc[m] = "idle"
  /\ LET i == FirstIndex({j \in 1..Len(registry[m].kernels) :
                            registry[m].kernels[j].id = kernel_id}) IN
       Returns(m, [Result("get", IF i # 0 THEN "ok" ELSE "fail",
                          IF i # 0 THEN "" ELSE "KernelNotFound", kernel_id, NoReq)
                     EXCEPT !.arg = IdArg(kernel_id)])
  /\ UNCHANGED << registry, envVars, fsVars, registered, removed >>

(* ------------------------- find-or-create matcher --------------------- *)
FindCall(m, req) ==
  /\ pc[m] = "idle"
  /\ Cleanup(m, "find", [NoLoc EXCEPT !.req = req])
  /\ UNCHANGED << envVars, registered >>

\* variant: the limits asked for have to be the limits of the record
MatchesLimits(k, req) ==
  /\ k.language = req.language
  /\ k.config = req.config
  /\ k.status = "running"
  /\ k.memory_limit = req.memory_limit
  /\ k.cpu_limit = req.cpu_limit

\* variant: the status is compared with a word no record carries
MatchesAlive(k, req) ==
  /\ k.language = req.language
  /\ k.config = req.config
  /\ k.status = "alive"

Matches(k, req) ==
  /\ k.language = req.language
  /\ k.config = req.config
  /\ k.status = "running"

\* the scan of find_or_create_kernel, then the spawn when nothing matches
FindMatch(m) ==
  /\ pc[m] = "fd_match"
  /\ LET ks == registry[m].kernels
         i == FirstIndex({j \in 1..Len(ks) :
                            Matches(ks[j], loc[m].req) /\ Alive(ks[j].pid)}) IN
       IF i # 0
       THEN Returns(m, Result("find", "ok", "found", registry[m].kernels[i].id, loc[m].req))
       ELSE SpawnBody(m, "find", loc[m].req)
  /\ UNCHANGED << registry, envVars, fsVars, registered, removed >>

(* ------------------------ construction and save's end ----------------- *)
\* FleetManager(): load_registry of a new supervisor process
Construct(m) ==
  /\ pc[m] = "absent" \/ (m = Svc /\ pc[m] = "idle")
  /\ IF canon = 0
     THEN /\ registry' = [registry EXCEPT ![m] = EmptyRegistry]
          /\ OpenTemp(m)
          /\ Calls(m, "ctor", "sv_write", [NoLoc EXCEPT !.cont = "ctor"])
     ELSE /\ UNCHANGED << fsVars, op, loc, atCall >>
          /\ last' = [last EXCEPT ![m] = NoLast]
          /\ IF WellFormed(FileData)
             THEN /\ registry' = [registry EXCEPT ![m] = Load(FileData)]
                  /\ pc' = [pc EXCEPT ![m] = "idle"]
                  /\ ret' = [NoRets EXCEPT ![m] = Result("ctor", "ok", "", 0, NoReq)]
             ELSE \* json.JSONDecodeError: the process ends
                  /\ pc' = [pc EXCEPT ![m] = "absent"]
                  /\ ret' = [NoRets EXCEPT ![m] = Result("ctor", "raise", "RegistryCorrupt", 0, NoReq)]
                  /\ UNCHANGED registry
  /\ UNCHANGED << envVars, registered, removed >>

\* variant: the artifact files are left behind
UnlinkNothing(files, kernel_id) == files

\* variant: only the files of a kernel that was signalled are deleted
UnlinkIfSignalled(files, kernel_id) ==
  IF \E p \in Pids : procs[p].kid = kernel_id /\ procs[p].sig = "none"
  THEN files
  ELSE files \ {kernel_id}

\* file_path.unlink(missing_ok=True)
Unlink(files, kernel_id) == files \ {kernel_id}

\* the end of save_registry and what the operation does after it
SaveReplace(m) ==
  /\ pc[m] = "sv_replace"
  /\ IF tmp = 0
     THEN \* FileNotFoundError: another process renamed registry.tmp away
          /\ Returns(m, Result(op[m], "raise", "FileNotFoundError", loc[m].kernel_id, loc[m].req))
          /\ UNCHANGED << fsVars, pidfiles, connfiles, registered >>
     ELSE /\ Replaced
          /\ CASE loc[m].cont = "spawn" ->
                    /\ Returns(m, Result(op[m], "ok", "", loc[m].kernel_id, loc[m].req))
                    /\ registered' = registered \cup {loc[m].kernel_id}
                    /\ UNCHANGED << pidfiles, connfiles >>
               [] loc[m].cont = "stop" ->
                    \* for suffix in ['.pid', '.json']
                    /\ pidfiles' = Unlink(pidfiles, loc[m].kernel_id)
                    /\ connfiles' = Unlink(connfiles, loc[m].kernel_id)
                    /\ StopFinish(m, op[m], loc[m].queue, loc[m].force, TRUE, "", loc[m].kernel_id)
                    /\ UNCHANGED registered
               [] loc[m].cont = "find" ->
                    /\ Goes(m, "fd_match", [loc[m] EXCEPT !.cont = ""])
                    /\ UNCHANGED << pidfiles, connfiles, registered >>
               [] OTHER ->
                    /\ Returns(m, AfterReap(m, op[m]))
                    /\ UNCHANGED << pidfiles, connfiles, registered >>
  /\ UNCHANGED << registry, procs, ext, removed >>

(* ------------------------------ behaviours ---------------------------- *)
StopArgs ==
  {IdArg(i) : i \in 1..MaxKernels} \cup {PortArg(BasePort + i) : i \in 0..(MaxKernels - 1)}

Operation(m) ==
  \/ \E req \in Requirements : SpawnCall(m, req) \/ FindCall(m, req)
  \/ \E arg \in StopArgs, force \in BOOLEAN : StopCall(m, arg, force)
  \/ \E force \in BOOLEAN : StopAllCall(m, force)
  \/ ReapCall(m)
  \/ Construct(m)

Step(m) ==
  \/ Launch(m) \/ PidPollHit(m) \/ PidPollMiss(m)
  \/ ReadyConnect(m) \/ ReadyRefused(m) \/ ReadyTimeout(m)
  \/ LimitsApplied(m) \/ LimitsFailed(m)
  \/ StopWaitExit(m) \/ StopGraceTimeout(m) \/ StopKillTimeout(m) \/ StopAllNext(m)
  \/ FindMatch(m)
  \/ SaveWrite(m) \/ SaveReplace(m)

\* one supervisor process is the only writer and runs its operations serially
Next == KernelEnv \/ Operation(Svc) \/ Step(Svc)
Spec == Init /\ [][Next]_vars

\* the same supervisor on the fleet directory in long use
SpecWorn == InitWorn /\ [][Next]_vars

\* the supervisor with its reading operations: the listing, the metrics in
\* both formats, the lookup of one kernel
ReadOperation(m) ==
  \/ ListCall(m)
  \/ \E prometheus \in BOOLEAN : MetricsRoute(m, prometheus)
  \/ \E kernel_id \in 1..MaxKernels : GetCall(m, kernel_id)

NextApi == Next \/ ReadOperation(Svc)
SpecApi == Init /\ [][NextApi]_vars

\* the service and CLI invocations work on the same fleet directory, with
\* no lock between them: the service spawns kernels of the default shape
\* while `fleet_manager.py cleanup` runs from the command line
DefaultReq ==
  [language |-> "lua", config |-> "default.toml",
   memory_limit |-> None, cpu_limit |-> None]

\* the supervisor with every operation, asked for kernels of the default
\* shape with and without limits; it goes on with the operation it is in:
\* every step of an operation is a statement of the calling thread, which
\* runs
LiveRequirements ==
  { DefaultReq,
    [DefaultReq EXCEPT !.memory_limit = Some("512M"), !.cpu_limit = Some("0.5")] }

LiveOperation(m) ==
  \/ \E req \in LiveRequirements : SpawnCall(m, req) \/ FindCall(m, req)
  \/ \E arg \in StopArgs, force \in BOOLEAN : StopCall(m, arg, force)
  \/ \E force \in BOOLEAN : StopAllCall(m, force)
  \/ ReapCall(m)
  \/ Construct(m)
  \/ ReadOperation(m)

NextLive == KernelEnv \/ LiveOperation(Svc) \/ Step(Svc)
SpecLive == Init /\ [][NextLive]_vars /\ WF_vars(Step(Svc))

RaceOperation(m) ==
  \/ m = Svc /\ SpawnCall(m, DefaultReq)
  \/ m = Cli /\ (Construct(m) \/ ReapCall(m))

RaceStep(m) ==
  \/ Launch(m) \/ PidPollHit(m) \/ PidPollMiss(m)
  \/ ReadyConnect(m) \/ ReadyRefused(m) \/ ReadyTimeout(m)
  \/ SaveWrite(m) \/ SaveReplace(m)

NextRace == KernelEnv \/ \E m \in Managers : RaceOperation(m) \/ RaceStep(m)
SpecRace == Init /\ [][NextRace]_vars

\* the supervisor on a host whose other processes take and give back the
\* first ports of the range: it spawns kernels of the default shape and
\* stops them, by id and by port
PortOperation(m) ==
  \/ SpawnCall(m, DefaultReq)
  \/ \E arg \in StopArgs, force \in BOOLEAN : StopCall(m, arg, force)

PortStep(m) ==
  \/ RaceStep(m)
  \/ StopWaitExit(m) \/ StopGraceTimeout(m) \/ StopKillTimeout(m)

NextPorts == Env \/ PortOperation(Svc) \/ PortStep(Svc)
SpecPorts == Init /\ [][NextPorts]_vars

\* the service spawning kernels with the memory limits callers write
MemoryStrings == {"512M", "1G", "750K", "64", "512m", "1.5G", "lots", ""}

LimitRequirements ==
  { [language |-> "lua", config |-> "default.toml",
     memory_limit |-> Some(v), cpu_limit |-> None] : v \in MemoryStrings }

NextLimits ==
  \/ KernelEnv
  \/ \E req \in LimitRequirements : SpawnCall(Svc, req)
  \/ RaceStep(Svc) \/ LimitsApplied(Svc) \/ LimitsFailed(Svc)

SpecLimits == Init /\ [][NextLimits]_vars

(* ------------------------------ properties ---------------------------- *)
Constructed == {m \in Managers : pc[m] # "absent"}

\* the registry a reader of registry.json gets
Persisted == Load(FileData)

\* the process launched for kernel `kid`, as a set
ProcessOf(kid) == {p \in Pids : procs[p].kid = kid}

NoSharedPort(ks) ==
  \A i, j \in 1..Len(ks) :
    (i < j /\ Alive(ks[i].pid) /\ Alive(ks[j].pid)) => ks[i].port # ks[j].port

\* C1: in every reachable state no two records whose processes are both
\* alive have the same port, in the registry a supervisor holds and in the
\* persisted one
C1_AlivePortsDistinct ==
  /\ \A m \in Constructed : NoSharedPort(registry[m].kernels)
  /\ WellFormed(FileData) => NoSharedPort(Persisted.kernels)

\* two records with living processes stand in the registry, the older one
\* of a kernel that has not bound its port
C1_TwoAlive ==
  \E i, j \in 1..Len(registry[Svc].kernels) :
    /\ i < j
    /\ Alive(registry[Svc].kernels[i].pid)
    /\ Alive(registry[Svc].kernels[j].pid)
    /\ ~Listening(registry[Svc].kernels[i].pid)

\* the step in which spawn_kernel returns its record to the caller
SpawnSucceeds(m) ==
  /\ pc[m] = "sv_replace" /\ op[m] = "spawn"
  /\ ret'[m].status = "ok"

\* the persisted registry is the one of the call's start plus the returned
\* record at its end
OneMorePersisted(m) ==
  /\ WellFormed(atCall[m].file) /\ WellFormed(FileData')
  /\ LET before == Load(atCall[m].file).kernels
         after == Load(FileData').kernels
     IN /\ Len(after) = Len(before) + 1
        /\ SubSeq(after, 1, Len(before)) = before
        /\ after[Len(after)].id = ret'[m].id
        /\ after[Len(after)].pid = loc[m].pid

\* C2 as stated: whenever spawn returns success the persisted registry has
\* exactly one record more than before the call, the returned one, and the
\* process of that record's pid is alive at that moment
C2_AliveAtReturn ==
  [][\A m \in Managers :
       SpawnSucceeds(m) =>
         /\ OneMorePersisted(m)
         /\ procs'[loc[m].pid].st # "dead"]_vars

\* C2: whenever spawn returns success the persisted registry has exactly
\* one record more than before the call, the returned one, and that
\* record's pid is the pid of the process launched for this kernel, which
\* wrote it to its PID file; the process may have exited since
C2_OneMoreRecord ==
  [][\A m \in Managers :
       SpawnSucceeds(m) =>
         /\ OneMorePersisted(m)
         /\ loc[m].pid \in ProcessOf(loc[m].kernel_id)
         /\ loc[m].kernel_id \in pidfiles]_vars

\* a spawn has just returned a second record
C2_SecondSpawnReturned ==
  /\ ret[Svc].op = "spawn" /\ ret[Svc].status = "ok"
  /\ WellFormed(FileData) /\ Len(Persisted.kernels) = 2
  /\ Persisted.kernels[2].id = ret[Svc].id

StopReturned(m) == ret[m].op = "stop"

RecordGone(m) ==
  /\ ret[m].id \notin Ids(registry[m].kernels)
  /\ WellFormed(FileData)
  /\ ret[m].id \notin Ids(Persisted.kernels)

\* C3: whenever stop returns success the record is absent from the registry,
\* in memory and persisted, and the process of that record is not alive
C3_StoppedIsGone ==
  \A m \in Managers :
    (StopReturned(m) /\ ret[m].status = "ok") =>
      /\ RecordGone(m)
      /\ \A p \in ProcessOf(ret[m].id) : ~Alive(p)

\* a stop has just returned success
C3_StopSucceeded ==
  /\ StopReturned(Svc) /\ ret[Svc].status = "ok"
  /\ ProcessOf(ret[Svc].id) # {}

FilesGone(m) == ret[m].id \notin pidfiles /\ ret[m].id \notin connfiles

\* C4 as stated: every stop whose target is found removes the record and
\* deletes the PID file and the connection descriptor, however the
\* termination went
C4_RemovedWhateverHappens ==
  \A m \in Managers :
    (StopReturned(m) /\ ret[m].why # "KernelNotFound") =>
      /\ ret[m].id \notin Ids(registry[m].kernels)
      /\ FilesGone(m)

\* C4: a stop whose target is found removes the record and deletes both
\* files when the process exited (after the signal or after the kill) or
\* was dead already; when the signal cannot be sent or the process outlives
\* the wait after the kill, stop returns failure and the record stays
C4_RemovedUnlessError ==
  \A m \in Managers :
    StopReturned(m) =>
      /\ ret[m].status = "ok" => (RecordGone(m) /\ FilesGone(m))
      /\ ret[m].why = "StopError" =>
           /\ ret[m].id \in Ids(registry[m].kernels)
           /\ WellFormed(FileData) /\ ret[m].id \in Ids(Persisted.kernels)

\* a successful stop has just deleted a PID file and a connection descriptor
C4_FilesDeleted ==
  /\ StopReturned(Svc) /\ ret[Svc].status = "ok"
  /\ ret[Svc].files = 2

\* C5: when the port accepts no connection before the timeout, spawn kills
\* the process it launched and fails with PortReadyTimeout, registering
\* nothing
C5_KilledOnTimeout ==
  [][\A m \in Managers :
       (pc[m] = "sp_ready" /\ ret'[m].why = "PortReadyTimeout") =>
         /\ registry'[m] = registry[m]
         /\ Alive(loc[m].pid) => procs'[loc[m].pid].sig = "kill"]_vars

\* C6: at every instant a reader of the canonical file reads a complete
\* registry snapshot, also while several writers save
C6_NeverPartial == canon # 0 /\ WellFormed(FileData)

\* a record some caller registered and persisted, neither stopped nor
\* reaped, that the persisted registry does not hold
Lost(id) ==
  /\ id \in registered \ removed
  /\ WellFormed(FileData)
  /\ id \notin Ids(Persisted.kernels)

\* C7: an update is lost only in a race: whenever a registered record that
\* nobody stopped or reaped is missing from the persisted registry, two
\* processes have been writing the file
C7_LostOnlyInRace == (\E id \in 1..MaxKernels : Lost(id)) => writers = Managers

\* the lost update, with every save over and both callers back
C7_LostUpdate ==
  /\ \E id \in 1..MaxKernels : Lost(id)
  /\ tmp = 0
  /\ \A m \in Managers : pc[m] = Home(m)

\* C8: a reap right after a reap, with no death since the first was called,
\* removes nothing: registry and file stay as the first left them
C8_ReapIdempotent ==
  [][\A m \in Managers :
       (pc[m] = "idle" /\ last[m].op = "reap"
          /\ (op'[m] = "reap" \/ ret'[m].op = "reap")) =>
         /\ registry'[m] = registry[m]
         /\ FileData' = FileData
         /\ ret'[m] = Result("reap", "ok", "", 0, NoReq)]_vars

\* a second reap in a row has returned, records still registered
C8_ReapedTwice ==
  /\ last[Svc].op = "reap" /\ last[Svc].twice
  /\ registry[Svc].kernels # << >>

\* C9: a find_or_create after one with the same requirements, with no death
\* since the first was called, returns the record the first returned and
\* leaves the registry's records as they were
C9_FindIdempotent ==
  [][\A m \in Managers :
       (last[m].op = "find" /\ op[m] = "find" /\ ret'[m].op = "find") =>
         /\ ret'[m].status = "ok"
         /\ ret'[m].id = last[m].id
         /\ registry'[m] = atCall[m].mem]_vars

\* a second find_or_create in a row has returned
C9_FoundTwice == last[Svc].op = "find" /\ last[Svc].twice

\* C10: a registry a supervisor holds between operations, loaded from the
\* file or left by an operation, is what loading its saved text yields
C10_RoundTrip ==
  \A m \in Constructed :
    pc[m] = "idle" =>
      /\ WellFormed(Dump(registry[m]))
      /\ Load(Dump(registry[m])) = registry[m]

\* a supervisor has just loaded a registry with a record that carries limits
C10_Loaded ==
  /\ ret[Svc].op = "ctor" /\ ret[Svc].status = "ok"
  /\ \E i \in 1..Len(registry[Svc].kernels) :
       registry[Svc].kernels[i].memory_limit.some

UniqueIds(ks) == \A i, j \in 1..Len(ks) : i # j => ks[i].id # ks[j].id

StartOf(reg, hint) == IF hint # 0 THEN hint ELSE reg.next_port

\* r is what an ascending scan from `start` has to return: the smallest
\* free port from start up to the limit, or 0 when there is none
FirstFreeFrom(start, r) ==
  IF r = 0
  THEN \A q \in start..(PortLimit - 1) : PortBusy(q)
  ELSE /\ start <= r /\ r < PortLimit
       /\ ~PortBusy(r)
       /\ \A q \in start..(r - 1) : PortBusy(q)

\* the hints find_free_port is asked with: none, and the first ports
Hints == {0, BasePort, BasePort + 1}

\* C12: find_free_port returns the smallest free port not below its start,
\* the hint or else the cursor; from 9555 with 9555 taken and 9556 free it
\* returns 9556; the port a spawn holds is one the scan from the cursor gave
C12_FirstFreePort ==
  \A m \in Constructed :
    /\ \A hint \in Hints :
         FirstFreeFrom(StartOf(registry[m], hint), FindFreePort(registry[m], hint))
    /\ (PortBusy(BasePort) /\ ~PortBusy(BasePort + 1)) =>
         FindFreePort(registry[m], BasePort) = BasePort + 1
    /\ pc[m] = "sp_launch" => loc[m].port >= registry[m].next_port

\* a spawn was given 9556: the scan started at 9555 and found it taken
C12_SecondPortGiven ==
  /\ pc[Svc] = "sp_launch"
  /\ registry[Svc].next_port = BasePort
  /\ loc[Svc].port = BasePort + 1
  /\ PortBusy(BasePort)

\* hints at the end of the range
LastHints == {0, PortLimit - 2, PortLimit - 1, PortLimit}

\* C13: find_free_port fails exactly when no port from its start up to
\* 10000 (exclusive) is free, never returns a port below its start, and a
\* spawn that raised PortExhausted found no free port from the cursor up
C13_ExhaustedNoWrap ==
  \A m \in Constructed :
    /\ \A hint \in LastHints :
         FirstFreeFrom(StartOf(registry[m], hint), FindFreePort(registry[m], hint))
    /\ ret[m].why = "PortExhausted" =>
         /\ ret[m].status = "raise"
         /\ \A q \in registry[m].next_port..(PortLimit - 1) : PortBusy(q)

\* a spawn has just failed with PortExhausted while the last port, below
\* the cursor, is free again: its kernel was stopped
C13_ExhaustedThoughFreed ==
  /\ ret[Svc].why = "PortExhausted"
  /\ registry[Svc].next_port = PortLimit
  /\ ~PortBusy(PortLimit - 1)
  /\ removed # {}

\* C14: on a fresh registry with 9555 free a spawn of a lua kernel with the
\* default config is given port 9555, and when it succeeds the registry, in
\* memory and persisted, holds exactly that one record, running, lua, on
\* 9555, with total_spawned 1 and next_port 9556
C14_FreshSpawn ==
  [][\A m \in Managers :
       /\ ( /\ pc[m] = "idle" /\ registry[m] = EmptyRegistry
            /\ ~PortBusy(BasePort)
            /\ pc'[m] = "sp_launch" /\ op'[m] = "spawn" ) =>
            loc'[m].port = BasePort
       /\ ( /\ SpawnSucceeds(m) /\ atCall[m].mem = EmptyRegistry
            /\ loc[m].port = BasePort
            /\ loc[m].req.language = "lua"
            /\ loc[m].req.config = "default.toml" ) =>
            /\ Len(registry'[m].kernels) = 1
            /\ registry'[m].kernels[1].port = BasePort
            /\ registry'[m].kernels[1].status = "running"
            /\ registry'[m].kernels[1].language = "lua"
            /\ registry'[m].total_spawned = 1
            /\ registry'[m].next_port = BasePort + 1
            /\ WellFormed(FileData') /\ Load(FileData') = registry'[m]]_vars

\* the first spawn on the fresh registry has just returned its record
C14_FirstSpawned ==
  /\ ret[Svc].op = "spawn" /\ ret[Svc].status = "ok"
  /\ ret[Svc].req.language = "lua"
  /\ ret[Svc].req.config = "default.toml"
  /\ Len(registry[Svc].kernels) = 1
  /\ registry[Svc].kernels[1].port = BasePort
  /\ registry[Svc].total_spawned = 1

\* C15: for every record of a reachable registry, stop given the record's
\* port in digits resolves to the record that stop given its id resolves
\* to, the record itself; the rest of stop_kernel works on that record only
C15_PortFormSameRecord ==
  \A m \in Constructed :
    \A i \in 1..Len(registry[m].kernels) :
      LET r == registry[m].kernels[i]
          byPort == Resolve(registry[m], PortArg(r.port))
          byId == Resolve(registry[m], IdArg(r.id))
      IN /\ byPort = i /\ byId = i
         /\ Without(registry[m], registry[m].kernels[byPort].id)
              = Without(registry[m], registry[m].kernels[byId].id)

\* a stop has just removed one of two records; the other one, on another
\* port, is still registered
C15_OneOfTwoStopped ==
  /\ StopReturned(Svc) /\ ret[Svc].status = "ok"
  /\ Len(registry[Svc].kernels) = 1
  /\ registry[Svc].kernels[1].id # ret[Svc].id

\* the step in which a spawn, called directly or by find_or_create_kernel,
\* has persisted its record and returns it
SpawnPersists(m) ==
  /\ pc[m] = "sv_replace" /\ loc[m].cont = "spawn"
  /\ ret'[m].status = "ok"

\* C16: the persisted total_spawned goes up by exactly 1 in the step that
\* completes a successful spawn and is changed by no other step; in memory
\* it never decreases
C16_TotalSpawnedMonotonic ==
  [][ /\ WellFormed(FileData) /\ WellFormed(FileData')
      /\ Load(FileData').total_spawned =
           Load(FileData).total_spawned
             + (IF \E m \in Managers : SpawnPersists(m) THEN 1 ELSE 0)
      /\ \A m \in Managers :
           registry'[m].total_spawned >= registry[m].total_spawned ]_vars

\* two spawns were counted and both records are gone again
C16_CountedAndGone ==
  /\ WellFormed(FileData)
  /\ Persisted.total_spawned = 2
  /\ Persisted.kernels = << >>

\* C17: next_port never decreases, in memory and persisted; it changes only
\* in the step that registers a spawned record, which sets it to the
\* assigned port plus one, so no stop and no reap moves it
C17_NextPortAdvances ==
  [][ /\ WellFormed(FileData) /\ WellFormed(FileData')
      /\ Load(FileData').next_port >= Load(FileData).next_port
      /\ \A m \in Managers :
           /\ registry'[m].next_port >= registry[m].next_port
           /\ Len(registry'[m].kernels) > Len(registry[m].kernels) =>
                /\ pc[m] \in {"sp_ready", "sp_limits"}
                /\ registry'[m].next_port = loc[m].port + 1
           /\ registry'[m].next_port # registry[m].next_port =>
                Len(registry'[m].kernels) > Len(registry[m].kernels)
           /\ SpawnPersists(m) => Load(FileData').next_port = loc[m].port + 1 ]_vars

\* a kernel was stopped or reaped, its port is free again, and the cursor
\* stays above it
C17_FreedPortBelowCursor ==
  /\ pc[Svc] = "idle"
  /\ registry[Svc].kernels = << >>
  /\ removed # {}
  /\ registry[Svc].next_port > BasePort
  /\ ~PortBusy(BasePort)

\* a step of the spawn run of m that ends it without a record
SpawnGivesUp(m) ==
  /\ pc[m] \in {"idle", "fd_match", "sp_launch", "sp_pid", "sp_ready", "sp_limits"}
  /\ ret'[m].op \in {"spawn", "find"}
  /\ ret'[m].status \in {"fail", "raise"}

\* C18 (as amended): a record is appended only in a spawn run that has read
\* the PID file and then connected to the assigned port; the run goes
\* through launch, PID poll, port wait, limits (only if requested) and
\* registration in this order; a failure to resolve the binary, to launch,
\* to find the PID file or to connect ends the run with the registry as it
\* was, whereas a failure to apply the limits does not end it: the record
\* is registered all the same
C18_RegisteredAfterPidAndPort ==
  [][\A m \in Managers :
       /\ Len(registry'[m].kernels) > Len(registry[m].kernels) =>
            /\ loc[m].pid # 0
            /\ registry'[m].kernels[Len(registry'[m].kernels)].pid = loc[m].pid
            /\ \/ /\ pc[m] = "sp_ready" /\ ~LimitsRequested(loc[m].req)
                  /\ \/ loc[m].port \in ext
                     \/ \E q \in Pids : /\ procs[q].st = "listening"
                                        /\ procs[q].port = loc[m].port
               \/ pc[m] = "sp_limits" /\ LimitsRequested(loc[m].req)
       /\ (pc'[m] = "sp_launch" /\ pc[m] # "sp_launch") =>
            pc[m] \in {"idle", "fd_match"}
       /\ (pc'[m] = "sp_pid" /\ pc[m] # "sp_pid") =>
            pc[m] = "sp_launch" /\ Len(procs') = Len(procs) + 1
       /\ (pc'[m] = "sp_ready" /\ pc[m] # "sp_ready") =>
            /\ pc[m] = "sp_pid" /\ loc[m].kernel_id \in pidfiles
            /\ loc'[m].pid # 0
       /\ (pc'[m] = "sp_limits" /\ pc[m] # "sp_limits") =>
            /\ pc[m] = "sp_ready" /\ LimitsRequested(loc[m].req)
            /\ \/ loc[m].port \in ext
               \/ \E q \in Pids : /\ procs[q].st = "listening"
                                  /\ procs[q].port = loc[m].port
       /\ (pc[m] \in {"sp_launch", "sp_pid", "sp_ready", "sp_limits"}
             /\ pc'[m] # pc[m]) =>
            \/ pc[m] = "sp_launch" /\ pc'[m] = "sp_pid"
            \/ pc[m] = "sp_pid" /\ pc'[m] = "sp_ready"
            \/ pc[m] = "sp_ready" /\ pc'[m] \in {"sp_limits", "sv_write"}
            \/ pc[m] = "sp_limits" /\ pc'[m] = "sv_write"
            \/ SpawnGivesUp(m) /\ pc'[m] = Home(m)
       /\ SpawnGivesUp(m) =>
            /\ registry'[m] = registry[m]
            /\ FileData' = FileData
            /\ pc[m] # "sp_limits"
       /\ pc[m] = "sp_limits" /\ pc'[m] # pc[m] =>
            Len(registry'[m].kernels) = Len(registry[m].kernels) + 1]_vars

\* a spawn with limits has just returned its record, the limits applied
C18_SpawnedWithLimits ==
  /\ ret[Svc].op = "spawn" /\ ret[Svc].status = "ok"
  /\ LimitsRequested(ret[Svc].req)
  /\ \E i \in 1..Len(registry[Svc].kernels) :
       /\ registry[Svc].kernels[i].id = ret[Svc].id
       /\ registry[Svc].kernels[i].memory_limit # None

\* C18 as stated: a failure at any step ends the spawn without reaching a
\* later step, so no run whose limits step failed gets to the registration
C18_AnyFailureEndsSpawn ==
  \A m \in Managers :
    loc[m].limits = "failed" => pc[m] \notin {"sv_write", "sv_replace"}

\* the ids of the records that leave the in-memory registry of m in a step
Leaving(m) == Ids(registry[m].kernels) \ Ids(registry'[m].kernels)

\* the process the record `id` of m's registry points to is gone
PidGone(m, id) ==
  \A i \in 1..Len(registry[m].kernels) :
    registry[m].kernels[i].id = id => ~Alive(registry[m].kernels[i].pid)

\* C19: a record leaves the registry of a supervisor only in the removal
\* step of stop or stop_all applied to that record, or in a reap pass that
\* found its pid gone; every other step, those of the kernels included,
\* keeps every record, and the records that stay are unchanged; the file
\* loses records only when a stop or a reap saves
C19_LeavesByStopOrReap ==
  [][/\ \A m \in Managers :
          /\ Leaving(m) # {} =>
               /\ pc'[m] = "sv_write" /\ pc[m] # "sv_write"
               /\ \/ /\ op'[m] \in {"stop", "stop_all"}
                     /\ loc'[m].cont = "stop"
                     /\ Leaving(m) = {loc'[m].kernel_id}
                  \/ /\ op'[m] \in {"reap", "find", "list", "prom"}
                     /\ pc[m] = "idle"
                     /\ \A id \in Leaving(m) : PidGone(m, id)
          /\ \A i \in 1..Len(registry[m].kernels) :
               registry[m].kernels[i].id \notin Leaving(m) =>
                 \E j \in 1..Len(registry'[m].kernels) :
                   registry'[m].kernels[j] = registry[m].kernels[i]
     /\ WellFormed(FileData) /\ WellFormed(FileData')
     /\ Ids(Load(FileData).kernels) \ Ids(Load(FileData').kernels) # {} =>
          \E m \in Managers :
            /\ pc[m] = "sv_replace"
            /\ loc[m].cont \in {"stop", "reap", "find", "list", "prom"}]_vars

\* a stop has just removed one of the records; the other one, whose kernel
\* is alive, stays registered
C19_OneLeftOneStays ==
  /\ removed # {}
  /\ ret[Svc].op = "stop" /\ ret[Svc].status = "ok"
  /\ Len(registry[Svc].kernels) = 1
  /\ Alive(registry[Svc].kernels[1].pid)

\* the argument names a record of reg: by its port if it is all digits,
\* by its id otherwise
Names(reg, arg) ==
  \E i \in 1..Len(reg.kernels) :
    IF arg.digits THEN reg.kernels[i].port = arg.n
                  ELSE reg.kernels[i].id = arg.n

\* C20: stop with an argument that names no record, neither as a port when
\* it is all digits nor as an id, resolves to no record and returns the
\* failure KernelNotFound, and the step sends no signal and leaves registry,
\* registry file, PID files and connection files as they were; every stop
\* that returns anything else, or goes on, works on a record of the registry
C20_NotFoundLeavesAll ==
  [][\A m \in Managers :
       /\ \A arg \in StopArgs :
            (pc[m] = "idle" /\ ~Names(registry[m], arg)) =>
              Resolve(registry[m], arg) = 0
       /\ (pc[m] = "idle" /\ ret'[m].op = "stop"
             /\ ret'[m].why # "KernelNotFound") =>
            ret'[m].id \in Ids(registry[m].kernels)
       /\ (pc[m] = "idle" /\ op'[m] = "stop") =>
            loc'[m].kernel_id \in Ids(registry[m].kernels)
       /\ ret'[m].why = "KernelNotFound" =>
            /\ ret'[m].status = "fail"
            /\ ~Names(registry[m], ret'[m].arg)
            /\ procs' = procs
            /\ registry' = registry
            /\ inoData' = inoData /\ FileData' = FileData
            /\ pidfiles' = pidfiles /\ connfiles' = connfiles
            /\ removed' = removed]_vars

\* stop was given the port of no record while a kernel is registered and
\* alive, and has just returned KernelNotFound
C20_NotFoundBesideLiving ==
  /\ ret[Svc].why = "KernelNotFound"
  /\ ret[Svc].arg.digits
  /\ Len(registry[Svc].kernels) = 1
  /\ Alive(registry[Svc].kernels[1].pid)

\* the step in which stop_kernel, called as the operation stop, has saved
\* the registry and goes on to delete the files and return
StopCompletes(m) ==
  /\ pc[m] = "sv_replace" /\ loc[m].cont = "stop" /\ op[m] = "stop"
  /\ pc'[m] # pc[m]

\* C21: stop on a record whose process is already gone sends no signal and
\* removes the record at once; and every stop that gets to its removal,
\* whether the process was found dead or had to be signalled, returns
\* success with the record out of the registry, in memory and persisted,
\* and the PID file and the connection file deleted
C21_DeadStopsAsSuccess ==
  [][\A m \in Managers :
       /\ ( /\ pc[m] = "idle" /\ op'[m] = "stop"
            /\ ~Alive(loc'[m].pid) ) =>
            /\ pc'[m] = "sv_write" /\ loc'[m].cont = "stop"
            /\ procs' = procs
            /\ loc'[m].kernel_id \in Ids(registry[m].kernels)
            /\ loc'[m].kernel_id \notin Ids(registry'[m].kernels)
       /\ StopCompletes(m) =>
            /\ ret'[m].op = "stop" /\ ret'[m].status = "ok"
            /\ ret'[m].id = loc[m].kernel_id
            /\ loc[m].kernel_id \notin Ids(registry'[m].kernels)
            /\ WellFormed(FileData')
            /\ loc[m].kernel_id \notin Ids(Load(FileData').kernels)
            /\ loc[m].kernel_id \notin pidfiles'
            /\ loc[m].kernel_id \notin connfiles']_vars

\* a stop of a kernel that had died by itself, never signalled, has just
\* returned success and deleted the two files the kernel had left behind
C21_DeadStopped ==
  /\ StopReturned(Svc) /\ ret[Svc].status = "ok"
  /\ ret[Svc].files = 2
  /\ \E p \in ProcessOf(ret[Svc].id) :
       procs[p].st = "dead" /\ procs[p].sig = "none"

\* the registry as it was when the operation that completes or starts in
\* this step was called
CallTime(m) == IF pc[m] = "idle" THEN registry[m] ELSE atCall[m].mem

\* C22: when stop_all returns, stop_kernel has run for every record that
\* was in the registry at the call: the registry, in memory and persisted,
\* holds exactly the records whose stop_kernel returned False, unchanged,
\* and every other record of the call is gone with its process and files;
\* stop_all returns only when no id is left to do, so a stop_kernel that
\* fails with ids left is followed by the next id, and no failure is forgotten
C22_SweepLeavesFailures ==
  [][\A m \in Managers :
       /\ ret'[m].op = "stop_all" =>
            /\ ret'[m].failed \subseteq Ids(CallTime(m).kernels)
            /\ Ids(registry'[m].kernels) = ret'[m].failed
            /\ registry'[m].kernels =
                 SelectSeq(CallTime(m).kernels, LAMBDA k : k.id \in ret'[m].failed)
            /\ WellFormed(FileData') /\ Load(FileData') = registry'[m]
            /\ \A id \in Ids(CallTime(m).kernels) \ ret'[m].failed :
                 /\ id \notin pidfiles' /\ id \notin connfiles'
                 /\ \A p \in Pids : procs'[p].kid = id => procs'[p].st = "dead"
       /\ ret'[m].op = "stop_all" =>
            \/ pc[m] = "idle" /\ Len(registry[m].kernels) <= 1
            \/ pc[m] = "sa_next" /\ Len(loc[m].queue) = 1
            \/ pc[m] \in {"st_wait2", "sv_replace"} /\ loc[m].queue = << >>
       /\ (op[m] = "stop_all" /\ op'[m] = "stop_all") =>
            loc[m].failed \subseteq loc'[m].failed]_vars

\* stop_all was called on a registry of two records: the stop of the first
\* failed, the sweep went on, removed the second and is saving the registry
\* that holds the first alone
C22_WentOnAfterFailure ==
  /\ op[Svc] = "stop_all" /\ pc[Svc] = "sv_replace"
  /\ Len(atCall[Svc].mem.kernels) = 2
  /\ loc[Svc].failed = {atCall[Svc].mem.kernels[1].id}
  /\ loc[Svc].kernel_id = atCall[Svc].mem.kernels[2].id
  /\ loc[Svc].queue = << >>
  /\ Ids(registry[Svc].kernels) = loc[Svc].failed

\* the records of ks whose process exists
Living(ks) == SelectSeq(ks, LAMBDA k : procs[k.pid].st # "dead")

\* m makes the first step of operation `name` (and may return in it)
Begins(m, name) ==
  /\ pc[m] = "idle"
  /\ op'[m] = name \/ ret'[m].op = name

\* C23 (as amended): list_kernels, find_or_create_kernel and the Prometheus
\* metrics handler begin with a reap pass, so the listing and the matcher
\* report no record whose process was dead when the operation started;
\* get_metrics, the JSON metrics snapshot, runs no reap: it leaves the dead
\* records in the registry, counts them in total_kernels and leaves them
\* out of its per-kernel list only
C23_ReapBeforeListAndMatch ==
  [][\A m \in Managers :
       /\ (Begins(m, "list") \/ Begins(m, "find") \/ Begins(m, "prom")) =>
            registry'[m].kernels = Living(registry[m].kernels)
       /\ ret'[m].op = "list" =>
            /\ ret'[m].view.kernels = Living(registry[m].kernels)
            /\ Ids(ret'[m].view.kernels) \subseteq Ids(Living(CallTime(m).kernels))
       /\ (ret'[m].op = "find" /\ ret'[m].why = "found") =>
            /\ ret'[m].id \in Ids(Living(registry[m].kernels))
            /\ ret'[m].id \in Ids(CallTime(m).kernels)
       /\ Begins(m, "metrics") =>
            /\ registry'[m] = registry[m]
            /\ ret'[m].view.total_kernels = Len(registry[m].kernels)
            /\ Ids(ret'[m].view.kernels) = Ids(Living(registry[m].kernels))]_vars

\* list_kernels was called on two records, one of them dead: its reap pass
\* has removed the dead one and is saving
C23_ListReaped ==
  /\ op[Svc] = "list" /\ pc[Svc] = "sv_write"
  /\ Len(atCall[Svc].mem.kernels) = 2
  /\ Len(registry[Svc].kernels) = 1

\* C23 as stated: listing, matching and the metrics snapshot each begin
\* with a reap pass
C23_EveryReadReapsFirst ==
  [][\A m \in Managers :
       ( \/ Begins(m, "list") \/ Begins(m, "find")
         \/ Begins(m, "metrics") \/ Begins(m, "prom") ) =>
         registry'[m].kernels = Living(registry[m].kernels)]_vars

\* C24: get_metrics changes nothing, neither the registry in memory nor
\* the registry file nor any process, and its per-kernel list has one
\* entry, in registry order, for exactly the records whose pid exists
C24_SnapshotReadsOnly ==
  [][\A m \in Managers :
       ret'[m].op = "metrics" =>
         /\ ret'[m].status = "ok"
         /\ registry' = registry
         /\ inoData' = inoData /\ FileData' = FileData
         /\ procs' = procs /\ removed' = removed
         /\ pidfiles' = pidfiles /\ connfiles' = connfiles
         /\ LET living == Living(registry[m].kernels) IN
              /\ Len(ret'[m].view.kernels) = Len(living)
              /\ \A i \in 1..Len(living) :
                   /\ ret'[m].view.kernels[i].id = living[i].id
                   /\ ret'[m].view.kernels[i].port = living[i].port
                   /\ ret'[m].view.kernels[i].language = living[i].language
         /\ ret'[m].view.total_kernels = Len(registry[m].kernels)
         /\ ret'[m].view.total_spawned = registry[m].total_spawned]_vars

\* a snapshot has just been taken of a registry of two records, one of
\* them dead: one entry, and both records still registered
C24_DeadSkippedNotReaped ==
  /\ ret[Svc].op = "metrics"
  /\ Len(ret[Svc].view.kernels) = 1
  /\ Len(registry[Svc].kernels) = 2
  /\ WellFormed(FileData) /\ Len(Persisted.kernels) = 2

\* C27 as stated: a get or a stop for an id that is not in the registry is
\* answered with the not-found status, and the server-error status is
\* given only when the operation itself failed
C27_NotFoundIsNotServerError ==
  \A m \in Managers :
    (ret[m].op \in {"get", "stop"} /\ ret[m].why = "KernelNotFound") =>
      ret[m].code = 404

\* C28 as stated: the Prometheus format, when asked for, succeeds with the
\* aggregate gauges and a labeled line for every registry record whose
\* process is alive; the default is the JSON snapshot
C28_PrometheusExposition ==
  \A m \in Managers :
    /\ ret[m].op = "prom" =>
         /\ ret[m].status = "ok" /\ ret[m].code = 200
         /\ ret[m].view.total_kernels = Len(registry[m].kernels)
         /\ Ids(ret[m].view.kernels) = Ids(Living(registry[m].kernels))
    /\ ret[m].op = "metrics" => ret[m].status = "ok" /\ ret[m].code = 200

\* C25: once the PID is read and the port has answered, no outcome of the
\* limits ends the spawn: from the limits step the next step of the
\* supervisor registers the record, whether the limits were applied, failed
\* or were skipped for a memory string that does not parse, and the spawn
\* that has registered its record returns it as a success
C25_LimitsNeverFailSpawn ==
  [][\A m \in Managers :
       /\ (pc[m] = "sp_limits" /\ pc'[m] # pc[m]) =>
            /\ pc'[m] = "sv_write" /\ loc'[m].cont = "spawn"
            /\ loc'[m].limits \in {"applied", "failed", "skipped"}
            /\ loc'[m].limits = "skipped" =>
                 /\ ~MemoryParses(loc[m].req.memory_limit.v)
                 /\ loc[m].req.cpu_limit = None
            /\ Len(registry'[m].kernels) = Len(registry[m].kernels) + 1
            /\ registry'[m].kernels[Len(registry'[m].kernels)].id = loc[m].kernel_id
       /\ (pc[m] = "sp_ready" /\ pc'[m] \notin {"sp_ready", Home(m)}) =>
            \/ pc'[m] = "sp_limits"
            \/ pc'[m] = "sv_write" /\ loc'[m].limits = "none"
       /\ (pc[m] \in {"sv_write", "sv_replace"} /\ loc[m].cont = "spawn"
             /\ pc'[m] # pc[m]) =>
            \/ pc'[m] = "sv_replace" /\ loc'[m] = loc[m]
            \/ /\ ret'[m].status = "ok" /\ ret'[m].id = loc[m].kernel_id
               /\ loc[m].kernel_id \in Ids(registry'[m].kernels)
       /\ ret'[m].why # "ResourceLimitApplyFailure"]_vars

\* a spawn whose memory string does not parse has registered its record,
\* with the limits skipped, and is about to return it
C25_SkippedAndRegistered ==
  /\ pc[Svc] = "sv_replace" /\ loc[Svc].cont = "spawn"
  /\ loc[Svc].limits = "skipped"
  /\ loc[Svc].kernel_id \in Ids(registry[Svc].kernels)

\* C26 as stated: every failure of a spawn or a stop reaches the caller as
\* the failure result of the operation, none as an exception that leaves
\* the operation
C26_FailuresAreResults ==
  \A m \in Managers :
    (ret[m].op \in {"spawn", "find", "stop"} /\ ret[m].status # "ok") =>
      ret[m].status = "fail"

\* C30: after the launch the PID file is looked for at most 10 times; a
\* round that finds it goes on to the readiness wait with the pid of the
\* launched kernel, registering nothing yet; a round that does not find it
\* is followed by the next round, and the tenth such round ends the spawn
\* with PidFileTimeout and the registry, in memory and persisted, unchanged
C30_PidPollBudget ==
  [][\A m \in Managers :
       /\ pc[m] = "sp_pid" => loc[m].polls < 10
       /\ (pc[m] = "sp_pid" /\ pc'[m] = "sp_ready") =>
            /\ loc[m].kernel_id \in pidfiles
            /\ loc'[m].pid \in Pids
            /\ procs[loc'[m].pid].kid = loc[m].kernel_id
            /\ registry' = registry /\ FileData' = FileData
       /\ (pc[m] = "sp_pid" /\ loc'[m].polls = loc[m].polls + 1) =>
            /\ loc[m].kernel_id \notin pidfiles
            /\ pc'[m] = "sp_pid" /\ loc'[m].polls < 10
       /\ ret'[m].why = "PidFileTimeout" =>
            /\ pc[m] = "sp_pid" /\ loc[m].polls + 1 = 10
            /\ loc[m].kernel_id \notin pidfiles
            /\ ret'[m].status = "fail"
            /\ registry' = registry /\ FileData' = FileData
       /\ (pc[m] = "sp_pid" /\ pc'[m] # pc[m]) =>
            pc'[m] = "sp_ready" \/ ret'[m].why = "PidFileTimeout"]_vars

\* a spawn has just failed with PidFileTimeout; the kernel it launched runs
\* on, and no record was registered
C30_TimedOut ==
  /\ ret[Svc].why = "PidFileTimeout"
  /\ registry[Svc].kernels = << >>
  /\ \E p \in Pids : procs[p].st # "dead"

Sent(p, sig) ==
  /\ p \in Pids /\ procs'[p].st # "dead"
  /\ procs'[p].sig = sig /\ procs[p].sig # sig

\* C31: a stop that is not forced begins with the terminate signal and goes
\* to the graceful wait; the kill of a non-forced stop is sent only when
\* that wait expires with the process still alive; a process found gone in
\* the graceful wait is sent nothing more; a forced stop sends the kill as
\* its first and only signal
C31_TerminateBeforeKill ==
  [][/\ \A p \in Pids :
          /\ Sent(p, "term") =>
               \E m \in Managers :
                 /\ pc[m] \in {"idle", "sa_next"} /\ pc'[m] = "st_wait5"
                 /\ loc'[m].pid = p /\ ~loc'[m].force
          /\ Sent(p, "kill") =>
               \E m \in Managers :
                 /\ loc'[m].pid = p /\ pc'[m] = "st_wait2"
                 /\ IF loc'[m].force
                    THEN pc[m] \in {"idle", "sa_next"} /\ procs[p].sig # "term"
                    ELSE /\ pc[m] = "st_wait5" /\ loc[m].pid = p
                         /\ Alive(p) /\ procs[p].sig = "term"
     /\ \A m \in Managers :
          /\ (pc[m] \in {"idle", "sa_next"} /\ pc'[m] = "st_wait5") =>
               ~loc'[m].force /\ Sent(loc'[m].pid, "term")
          /\ (pc[m] \in {"idle", "sa_next"} /\ pc'[m] = "st_wait2") =>
               loc'[m].force /\ procs'[loc'[m].pid].sig = "kill"
          /\ (pc[m] = "st_wait5" /\ pc'[m] = "st_wait2") =>
               Alive(loc[m].pid) /\ Sent(loc[m].pid, "kill")
          /\ (pc[m] = "st_wait5" /\ ~Alive(loc[m].pid) /\ pc'[m] # pc[m]) =>
               pc'[m] = "sv_write" /\ procs' = procs]_vars

\* a stop that was not forced has waited in vain for the process it asked
\* to terminate and has now sent it the kill
C31_Escalated ==
  /\ pc[Svc] = "st_wait2" /\ ~loc[Svc].force
  /\ Alive(loc[Svc].pid) /\ procs[loc[Svc].pid].sig = "kill"

\* the ids of the records of ks whose pid the probe finds
LivingIds(ks) == {ks[i].id : i \in {j \in 1..Len(ks) : Alive(ks[j].pid)}}

\* C32: reap keeps exactly the records whose pid exists when it is probed,
\* each as it was and in the order they had, and leaves next_port and
\* total_spawned alone; when every record is kept it returns at once and
\* writes nothing, and when a record was dropped it saves the pruned
\* registry and returns with the file holding it
C32_ReapRemovesExactlyDead ==
  [][\A m \in Managers :
       /\ (pc[m] = "idle" /\ (op'[m] = "reap" \/ ret'[m].op = "reap")) =>
            LET old == registry[m].kernels
                new == registry'[m].kernels
            IN /\ Ids(new) = LivingIds(old)
               /\ new = SelectSeq(old, LAMBDA k : k.id \in Ids(new))
               /\ registry'[m].next_port = registry[m].next_port
               /\ registry'[m].total_spawned = registry[m].total_spawned
               /\ IF new = old
                  THEN /\ ret'[m].op = "reap" /\ ret'[m].status = "ok"
                       /\ FileData' = FileData
                       /\ tmp' = tmp /\ inoData' = inoData
                  ELSE pc'[m] = "sv_write" /\ op'[m] = "reap"
       /\ (op[m] = "reap" /\ pc'[m] # pc[m]) =>
            /\ registry'[m] = registry[m]
            /\ registry[m] # atCall[m].mem
            /\ ret'[m].op = "reap" =>
                 ret'[m].status = "ok" /\ FileData' = Dump(registry[m])]_vars

\* a reap called with two records, the older one's process gone, has
\* dropped that record alone and is about to put the pruned registry in
\* place of the file
C32_DroppedTheDeadOne ==
  /\ op[Svc] = "reap" /\ pc[Svc] = "sv_replace"
  /\ Len(atCall[Svc].mem.kernels) = 2
  /\ registry[Svc].kernels = Tail(atCall[Svc].mem.kernels)
  /\ FileData = Dump(atCall[Svc].mem)

\* the record passes the test of find-or-create for the requirement: same
\* language, same config, status "running", pid found by the probe
Eligible(k, req) ==
  /\ k.language = req.language /\ k.config = req.config
  /\ k.status = "running"
  /\ Alive(k.pid)

\* C33: the scan of find-or-create, made after its reap, returns the first
\* record in registry order that has the requested language and config,
\* status "running" and a pid that is found; the limits asked for are not
\* compared; and it goes on to spawn only when no record passes
C33_FirstEligibleOrSpawn ==
  [][\A m \in Managers :
       (pc[m] = "fd_match" /\ pc'[m] # pc[m]) =>
         LET ks == registry[m].kernels
             req == loc[m].req
         IN IF ret'[m].why = "found"
            THEN /\ ret'[m].op = "find" /\ ret'[m].status = "ok"
                 /\ \E i \in 1..Len(ks) :
                      /\ ks[i].id = ret'[m].id
                      /\ Eligible(ks[i], req)
                      /\ \A j \in 1..(i - 1) : ~Eligible(ks[j], req)
                 /\ registry' = registry /\ procs' = procs
            ELSE /\ \A i \in 1..Len(ks) : ~Eligible(ks[i], req)
                 /\ \/ pc'[m] = "sp_launch" /\ loc'[m].req = req
                    \/ ret'[m].op = "find" /\ ret'[m].status # "ok"]_vars

\* find-or-create has returned the older of two records that both pass,
\* though the memory limit asked for is not the one that record was
\* spawned with
C33_FoundOlderOtherLimits ==
  /\ ret[Svc].op = "find" /\ ret[Svc].why = "found"
  /\ Len(registry[Svc].kernels) = 2
  /\ \A i \in 1..2 : Eligible(registry[Svc].kernels[i], ret[Svc].req)
  /\ registry[Svc].kernels[1].id = ret[Svc].id
  /\ registry[Svc].kernels[1].memory_limit # ret[Svc].req.memory_limit

\* the records of the registry file, as a reader would load them
FileKernels(data) == IF WellFormed(data) THEN Load(data).kernels ELSE << >>

\* the records as a set
Records(ks) == {ks[i] : i \in 1..Len(ks)}

\* C34: across every step, a record that is in the registry before and
\* after has all its fields unchanged, a record enters only at the
\* registration step of a spawn, and every record held, in memory or in the
\* file, has status "running", whether its process lives or not; the file
\* changes only to the text of the registry held in memory
C34_RecordsImmutable ==
  [][\A m \in Managers :
       /\ \A k \in Records(registry'[m].kernels) :
            /\ k.status = "running"
            /\ \A old \in Records(registry[m].kernels) : old.id = k.id => old = k
            /\ k.id \notin Ids(registry[m].kernels) =>
                 /\ pc[m] \in {"sp_ready", "sp_limits"} /\ pc'[m] = "sv_write"
                 /\ k.id = loc[m].kernel_id /\ k.pid = loc[m].pid
                 /\ k.port = loc[m].port
       /\ (FileData' # FileData /\ pc'[m] # pc[m]) =>
            FileData' = Dump(registry[m])]_vars

\* the process of a registered kernel has died and nothing has removed the
\* record yet: it is still listed, in memory and in the file, as "running"
C34_DeadStillRunning ==
  /\ pc[Svc] = "idle"
  /\ \E k \in Records(registry[Svc].kernels) :
       /\ ~Alive(k.pid) /\ k.status = "running"
       /\ k \in Records(FileKernels(FileData))

\* apply_resource_limits has run for the spawn that is now saving
LimitsRun(m) ==
  /\ pc[m] \in {"sv_write", "sv_replace"} /\ loc[m].cont = "spawn"
  /\ Truthy(loc[m].req.memory_limit)

\* C35: the byte count written for a memory string is its leading digits
\* read as a decimal number, times 1024^3, 1024^2 or 1024 for the unit G, M
\* or K that follows them and times 1 when none does, in either letter
\* case; a string that does not begin with a digit writes no limit, and the
\* spawn goes on to register all the same
C35_MemoryBytes ==
  \A m \in Managers :
    LimitsRun(m) =>
      LET v == loc[m].req.memory_limit.v
          written == loc[m].bytes
      IN /\ loc[m].limits \in {"applied", "skipped", "failed"}
         /\ loc[m].limits = "applied" =>
              /\ v = "512M" => written = 536870912
              /\ v = "1G" => written = 1073741824
              /\ v = "750K" => written = 768000
              /\ v = "64" => written = 64
              /\ v = "512m" => written = 536870912
              /\ v = "1.5G" => written = 1
              /\ v # "lots"
         /\ v = "lots" => loc[m].limits \in {"skipped", "failed"} /\ written = 0
         /\ loc[m].limits = "skipped" => v = "lots"

\* a first kernel asked for with "lots" was registered without a limit; the
\* spawn of a second, asked for with "750K", has written 768000 as its
\* memory limit and is saving the registry with both records
C35_Wrote750K ==
  /\ LimitsRun(Svc) /\ loc[Svc].limits = "applied"
  /\ loc[Svc].req.memory_limit.v = "750K"
  /\ loc[Svc].bytes = 768000
  /\ Len(registry[Svc].kernels) = 2
  /\ registry[Svc].kernels[1].memory_limit = Some("lots")

\* the ways a spawn fails
SpawnFailures ==
  {"PortExhausted", "BinaryNotFound", "LaunchFailed", "PidFileTimeout",
   "PortReadyTimeout"}

\* C36: a spawn that fails, called by itself or from find-or-create, fails
\* in one of the five ways and changes neither the registry in memory nor
\* the registry file in its failing step; no step of a spawn before its
\* registration changes either; so the spawn operation returns its failure
\* with the registry and the file as they were when it was called
C36_FailedSpawnChangesNothing ==
  [][\A m \in Managers :
       /\ (ret'[m].op \in {"spawn", "find"} /\ ret'[m].status # "ok") =>
            /\ ret'[m].why \in SpawnFailures
            /\ registry' = registry /\ FileData' = FileData
       /\ (ret'[m].op = "spawn" /\ ret'[m].status # "ok") =>
            /\ registry'[m] = CallTime(m)
            /\ FileData' = IF pc[m] = "idle" THEN FileData ELSE atCall[m].file
       /\ (pc[m] \in {"sp_launch", "sp_pid", "sp_ready", "sp_limits"} /\ pc'[m] # pc[m]) =>
            /\ FileData' = FileData
            /\ registry' = registry \/ pc'[m] = "sv_write"]_vars

\* a spawn has just failed on the readiness timeout beside a registered
\* kernel: one record, the cursor just above its port, one spawn counted,
\* in memory and in the file
C36_TimedOutBesideRecord ==
  /\ ret[Svc].op = "spawn" /\ ret[Svc].why = "PortReadyTimeout"
  /\ Len(registry[Svc].kernels) = 1
  /\ registry[Svc].next_port = registry[Svc].kernels[1].port + 1
  /\ registry[Svc].total_spawned = 1 + (WornRegistry.total_spawned)
  /\ FileData = Dump(registry[Svc])

\* C37: whenever the single supervisor is between operations, that is after
\* its construction and after every operation that has returned a result,
\* a failure or an exception, the registry file is well formed and loads
\* to the registry the supervisor holds in memory
C37_MemoryEqualsFile ==
  \A m \in Constructed :
    pc[m] = "idle" => WellFormed(FileData) /\ Persisted = registry[m]

\* a stop-all has returned with one kernel stopped and one that it could
\* not stop: memory and file agree on the one record that is left
C37_AgreeAfterPartialSweep ==
  /\ ret[Svc].op = "stop_all" /\ ret[Svc].failed # {}
  /\ Len(registry[Svc].kernels) = 1
  /\ registry[Svc].total_spawned = 2
  /\ WellFormed(FileData) /\ Persisted = registry[Svc]

\* C38: after every step the ports of the records are strictly increasing
\* in registry order and all below next_port, and a record that enters
\* gets a port at or above the next_port of before; next_port never goes
\* down, so the port of a record, present or removed, is never given to a
\* later record
C38_PortsIncreaseBelowCursor ==
  [][\A m \in Managers :
       LET ks == registry'[m].kernels IN
       /\ \A i \in 1..Len(ks) : ks[i].port < registry'[m].next_port
       /\ \A i, j \in 1..Len(ks) : i < j => ks[i].port < ks[j].port
       /\ \A i \in 1..Len(ks) :
            ks[i].id \notin Ids(registry[m].kernels) =>
              /\ ks[i].port >= registry[m].next_port
              /\ i = Len(ks)
       /\ registry'[m].next_port >= registry[m].next_port]_vars

\* the first kernel was stopped or reaped and its port is free again; the
\* kernel spawned after that was given a higher port all the same
C38_FreedPortNotReused ==
  /\ pc[Svc] = "idle"
  /\ Len(registry[Svc].kernels) = 1
  /\ registry[Svc].kernels[1].id = 2
  /\ 1 \in removed
  /\ ~PortBusy(BasePort)
  /\ registry[Svc].kernels[1].port > BasePort

\* C39 as stated: when a spawn returns, by itself or inside find-or-create,
\* every process it launched is the process of a record of the registry or
\* is not alive
C39_NoUntrackedKernel ==
  [][\A m \in Managers :
       (op[m] \in {"spawn", "find"} /\ ret'[m].op = op[m]) =>
         \A p \in ProcessOf(loc[m].kernel_id) :
           \/ procs'[p].st = "dead"
           \/ \E k \in Records(registry'[m].kernels) :
                k.id = loc[m].kernel_id /\ k.pid = p]_vars

====
